---- MODULE Spec2Model ----
(***************************************************************************)
(* SeasonRecap backend: the job store (jobStore.ts), the summary pipeline *)
(* (SummaryPipeline, current and earlier version), the job API handlers,  *)
(* calculateOverallProgress, the subtitle remapper, the SRT parser, the   *)
(* narrative subtitles, the speech synthesizers, processClipsToVideo and  *)
(* the retry loop of the LLM providers.                                   *)
(*                                                                         *)
(* Scheduling.  The backend is one Node.js process.  Every JobStore        *)
(* method is an async function whose body only uses synchronous fs calls, *)
(* so awaiting it resumes the caller from the microtask queue: no request *)
(* handler and no I/O completion runs in between.  Other handlers run only*)
(* while every pipeline run is waiting for a real asynchronous operation  *)
(* (LLM request, ffmpeg child process, speech synthesis).  The pipeline is*)
(* still modelled step by step, so that every store write it makes is a   *)
(* state of the model.                                                     *)
(***************************************************************************)
EXTENDS Integers, Sequences, FiniteSets, TLC

VARIABLES
  version,    \* which SummaryPipeline.run is deployed: 2 = current, 1 = earlier
  cfg,        \* job.config of the one job: [mode, videoDirectory]
  disk,       \* the job's JSON file in jobsDir (exists = FALSE: no file)
  run,        \* run[r]: state of the r-th call of SummaryPipeline.run
  launched,   \* number of calls of SummaryPipeline.run so far
  lastResp,   \* response of the last API request
  pj,         \* a job handed to calculateOverallProgress
  pres,       \* what calculateOverallProgress returned for pj (-1: not called)
  rm,         \* state of one call of remapSubtitlesToClips
  srt,        \* state of one call of the SRT functions of srtParser.ts
  epi,        \* state of one call of extractEpisodeIdFromFilename
  nar,        \* state of one call of generateNarrativeSubtitles
  tts,        \* state of one call of the speech synthesizer
  pv,         \* state of one call of processVideo on its own
  llm         \* state of one call of callWithRetry

\* the variables of the library functions that are called on their own
fnVars == <<srt, epi, nar, tts, pv, llm>>

\* the variables of the job store, the pipeline, the API and the remapper
jobVars == <<version, cfg, disk, run, launched, lastResp, pj, pres, rm>>

vars == <<version, cfg, disk, run, launched, lastResp, pj, pres, rm, srt, epi, nar, tts, pv, llm>>

(***************************************************************************)
(* Bounds                                                                  *)
(***************************************************************************)
MaxRuns == 2          \* calls of SummaryPipeline.run that are modelled
MaxFiles == 2         \* uploaded files of one kind on a job
MaxClips == 2         \* clips handed to the remapper
MaxSubs == 2          \* subtitle entries of the first episode
MaxSubsSecond == 1    \* subtitle entries of the second episode
MaxTime == 2          \* times are 0..MaxTime seconds
MaxMoments == 2       \* key moments in one answer of the LLM
TicksPerMs == 5       \* times are multiples of 1 / TicksPerMs milliseconds
MaxEntries == 2       \* entries given to generateSrtContent
MaxBlocks == 3        \* blocks of a subtitle file given to parseSrtContent
MaxMarkers == 2       \* episode markers in one file name
MaxNarrativeBlocks == 2  \* blocks given to generateNarrativeSubtitles
MaxSentences == 2     \* sentences of a text to synthesize
MaxVideoClips == 3    \* clips given to processVideo
MaxLlmRetries == 3    \* the configured maxRetries of an LLM provider

LogCap == 100

Runs == 1..MaxRuns

Episodes == {"S01E01", "S01E02"}

\* sequences over S of length 0..n
SeqsUpTo(S, n) == UNION {[1..k -> S] : k \in 0..n}

(***************************************************************************)
(* Job record                                                              *)
(***************************************************************************)
Stages ==
  <<"pending", "validating", "parsing", "analyzing", "generating_clips",
    "processing_video", "generating_srt", "generating_tts", "mixing_audio",
    "completed">>

JobStatus == {Stages[i] : i \in 1..Len(Stages)} \cup {"failed"}

NoOutputs ==
  [clipsJsonPath |-> FALSE, videoPath |-> "none", srtPath |-> FALSE,
   narrativeSrtPath |-> FALSE, audioPath |-> FALSE]

\* JobStore.create: the record of a new job
create ==
  [exists |-> TRUE,
   status |-> "pending",
   stage |-> "pending",
   stageProgress |-> 0,
   completedStages |-> <<>>,
   errors |-> <<>>,
   logs |-> <<>>,
   error |-> "",
   srtFiles |-> 0,
   videoFiles |-> 0,
   localVideoFiles |-> 0,
   outputs |-> NoOutputs]

\* no file for the job: what get() reports as null
NoJob == [create EXCEPT !.exists = FALSE]

\* JobStore.get
get(d) == d

\* JobStore.save: writes the given object over the file, whatever the file holds
save(d, job) == [job EXCEPT !.exists = TRUE]

\* the tail of a list kept by slice(-n)
LastN(s, n) == IF Len(s) > n THEN SubSeq(s, Len(s) - n + 1, Len(s)) ELSE s

addLogWithoutCheck(d, message) ==
  save(d, [get(d) EXCEPT !.logs = LastN(Append(get(d).logs, message), LogCap)])

\* JobStore.addLog: silently returns when the job is missing
addLog(d, message) ==
  LET job == get(d) IN
  IF ~job.exists THEN d
  ELSE save(d, [job EXCEPT !.logs = LastN(Append(job.logs, message), LogCap)])

updateStatusPushes(job, status) ==
  job.status # status /\ job.status # "pending" /\ job.status # "failed"

\* JobStore.updateStatus on an existing job
updateStatus(d, status, stageProgress) ==
  LET job == get(d)
      cs == IF updateStatusPushes(job, status)
              THEN Append(job.completedStages, job.status)
              ELSE job.completedStages
  IN save(d, [job EXCEPT !.completedStages = cs,
                         !.status = status,
                         !.stage = status,
                         !.stageProgress = stageProgress])

\* JobStore.updateProgress on an existing job
updateProgress(d, stageProgress) ==
  LET job == get(d) IN save(d, [job EXCEPT !.stageProgress = stageProgress])

\* JobStore.addFiles on an existing job
addFiles(d, type) ==
  LET job == get(d) IN
  IF type = "srt" THEN save(d, [job EXCEPT !.srtFiles = @ + 1])
                  ELSE save(d, [job EXCEPT !.videoFiles = @ + 1])

setFailedKeepsStatus(d, error) ==
  LET job == get(d)
      failedJob == [job EXCEPT !.errors = Append(@, error), !.error = error]
      logged == addLog(d, "Pipeline failed")
  IN save(logged, failedJob)

\* JobStore.setFailed on an existing job: the copy read first is written last
setFailed(d, error) ==
  LET job == get(d)
      failedJob == [job EXCEPT !.status = "failed",
                               !.stage = "failed",
                               !.errors = Append(@, error),
                               !.error = error]
      logged == addLog(d, "Pipeline failed")
  IN save(logged, failedJob)

(***************************************************************************)
(* A stretch of pipeline code between two suspension points is a list of   *)
(* store calls, run in order until one throws.                             *)
(***************************************************************************)
US(status, sp) == [op |-> "updateStatus", status |-> status, sp |-> sp, msg |-> ""]
UP(sp) == [op |-> "updateProgress", status |-> "", sp |-> sp, msg |-> ""]
Log(msg) == [op |-> "addLog", status |-> "", sp |-> 0, msg |-> msg]
Throw(msg) == [op |-> "throw", status |-> "", sp |-> 0, msg |-> msg]

NotFound == "Job not found"

RECURSIVE RunOps(_, _, _)
\* the store after the calls, the stages entered, and the error thrown if any
RunOps(d, entered, ops) ==
  IF ops = <<>> THEN [disk |-> d, entered |-> entered, thrown |-> FALSE, msg |-> ""]
  ELSE
    LET o == Head(ops) IN
    CASE o.op = "throw" ->
           [disk |-> d, entered |-> entered, thrown |-> TRUE, msg |-> o.msg]
      [] o.op = "addLog" ->
           RunOps(IF version = 2 THEN addLog(d, o.msg) ELSE d, entered, Tail(ops))
      [] o.op = "updateStatus" ->
           IF ~get(d).exists
             THEN [disk |-> d, entered |-> entered, thrown |-> TRUE, msg |-> NotFound]
             ELSE RunOps(updateStatus(d, o.status, o.sp), Append(entered, o.status), Tail(ops))
      [] o.op = "updateProgress" ->
           IF ~get(d).exists
             THEN [disk |-> d, entered |-> entered, thrown |-> TRUE, msg |-> NotFound]
             ELSE RunOps(updateProgress(d, o.sp), entered, Tail(ops))

(***************************************************************************)
(* One call of SummaryPipeline.run                                         *)
(***************************************************************************)
\* positions at which run() waits for a real asynchronous operation
YieldPcs ==
  {"llm_moments", "llm_narrative", "ffmpeg", "tts_wait", "mix_remove_wait",
   "mix_mux_wait"}

Quiescent(pc) == pc \in {"idle", "done", "rejected"} \cup YieldPcs

\* run r may take its next step: no other run is in the middle of a microtask chain
CanStep(r) == \A q \in Runs \ {r} : Quiescent(run[q].pc)

\* an API request handler may run
HandlerMayRun == \A q \in Runs : Quiescent(run[q].pc)

IdleRun ==
  [pc |-> "idle",
   mem |-> NoJob,          \* the `job` object run() read at its start
   err |-> "",             \* the error caught by run()
   result |-> "",          \* "resolved", or the message run() rejected with
   narrative |-> "unset",  \* the `narrative` local of run()
   srtIdx |-> 0,           \* loop index of parseSubtitles
   entered |-> <<>>,       \* stages entered through updateStatus, in order
   thrownIn |-> "",        \* the stage in which the caught error was thrown
   trace |-> <<>>,         \* external calls and file generations, in order
   moments |-> <<>>,       \* the key moments the LLM selected
   clips |-> <<>>,         \* the `clips` local of run()
   extracted |-> <<>>,     \* the ffmpeg extractions requested: [videoPath, ss, t]
   concatenated |-> <<>>,  \* the clip files listed for concatenation, by clip number
   clipDefinitions |-> <<>>,  \* the clips handed to remapSubtitlesToClips
   invalid |-> ""]         \* what the environment made invalid in the inputs

CurrentStage(entered) == IF entered = <<>> THEN "pending" ELSE entered[Len(entered)]

\* run the store calls `ops` for run r, whose state is `pre` when they start;
\* `ok` is the run's state when none throws
ExecFrom(r, ops, pre, ok) ==
  LET res == RunOps(disk, run[r].entered, ops) IN
  /\ disk' = res.disk
  /\ run' = [run EXCEPT ![r] =
       IF res.thrown
         THEN [pre EXCEPT !.entered = res.entered,
                        !.pc = "catch",
                        !.err = res.msg,
                        !.thrownIn = CurrentStage(res.entered)]
         ELSE [ok EXCEPT !.entered = res.entered]]
  /\ UNCHANGED <<version, cfg, launched, lastResp, pj, pres, rm, fnVars>>

Exec(r, ops, ok) == ExecFrom(r, ops, run[r], ok)

\* Math.round(x / y) for x >= 0, y > 0
RoundDiv(x, y) == (2 * x + y) \div (2 * y)

noSrtFilesNever(job) == FALSE

noSrtFiles(job) == job.srtFiles = 0

noVideoSource(job, c) == job.videoFiles = 0 /\ ~c.videoDirectory

usesLocalVideoDir(job, c) == c.videoDirectory /\ job.videoFiles = 0

\* run(): the first log line
RunBegin(r) ==
  /\ run[r].pc = "begin" /\ CanStep(r)
  /\ Exec(r, <<Log("Starting summary pipeline")>>, [run[r] EXCEPT !.pc = "validate"])

\* validateInputs up to the scan of the local video directory
ValidateInputs(r) ==
  /\ run[r].pc = "validate" /\ CanStep(r)
  /\ \E ffmpegOk \in BOOLEAN :
       LET job == run[r].mem
           checks ==
             IF ~ffmpegOk THEN <<Throw("FFmpeg is not available")>>
             ELSE <<Log("FFmpeg is available")>> \o
               (IF noSrtFiles(job) THEN <<Throw("No SRT files uploaded")>>
                ELSE <<Log("Found SRT files")>> \o
                  (IF noVideoSource(job, cfg) THEN <<Throw("No video files")>>
                   ELSE IF usesLocalVideoDir(job, cfg)
                          THEN <<Log("Scanning video directory")>>
                          ELSE <<>>))
           pre == [run[r] EXCEPT !.invalid = IF ffmpegOk THEN @ ELSE "ffmpeg"]
       IN ExecFrom(r,
               <<US("validating", 0), Log("Validating input files")>> \o checks,
               pre,
               [pre EXCEPT !.pc = IF usesLocalVideoDir(job, cfg) THEN "scan"
                                                                 ELSE "verify"])

\* scanLocalVideoDirectory: stores the files found in `job` and saves `job`
ScanLocalVideoDirectory(r) ==
  /\ run[r].pc = "scan" /\ CanStep(r)
  /\ \E found \in 0..MaxFiles, readable \in BOOLEAN :
       IF ~readable
         THEN ExecFrom(r, <<Throw("ENOENT: no such directory")>>,
                       [run[r] EXCEPT !.invalid = "directory"], run[r])
       ELSE IF found = 0
         THEN ExecFrom(r, <<Throw("No video files found in directory")>>,
                       [run[r] EXCEPT !.invalid = "directory"], run[r])
       ELSE
         LET job == [run[r].mem EXCEPT !.localVideoFiles = found] IN
         /\ disk' = save(disk, job)
         /\ run' = [run EXCEPT ![r] = [@ EXCEPT !.mem = job, !.pc = "verify"]]
         /\ UNCHANGED <<version, cfg, launched, lastResp, pj, pres, rm, fnVars>>

\* validateInputs: every referenced SRT and video file must exist
VerifyFiles(r) ==
  /\ run[r].pc = "verify" /\ CanStep(r)
  /\ \E srtMissing \in BOOLEAN, videoMissing \in BOOLEAN :
       LET pre == [run[r] EXCEPT
                     !.invalid = IF srtMissing \/ videoMissing THEN "file" ELSE @]
       IN ExecFrom(r,
            IF srtMissing THEN <<Throw("File not found")>>
            ELSE IF videoMissing THEN <<Throw("Video file not found")>>
            ELSE <<Log("All input files validated"), UP(100)>>,
            pre,
            [pre EXCEPT !.pc = "parse"])

\* parseSubtitles: entering the stage
ParseSubtitles(r) ==
  /\ run[r].pc = "parse" /\ CanStep(r)
  /\ Exec(r, <<US("parsing", 0), Log("Parsing subtitle files")>>,
          [run[r] EXCEPT !.pc = "parse_loop", !.srtIdx = 0])

\* parseSubtitles: one iteration of the loop over job.srtFiles
ParseFile(r) ==
  /\ run[r].pc = "parse_loop" /\ CanStep(r)
  /\ run[r].srtIdx < run[r].mem.srtFiles
  /\ LET i == run[r].srtIdx
         totalFiles == run[r].mem.srtFiles
     IN Exec(r, <<UP(RoundDiv((i + 1) * 100, totalFiles)), Log("Parsed file")>>,
             [run[r] EXCEPT !.srtIdx = i + 1,
                            !.trace = Append(@, "parseSrtFile")])

\* parseSubtitles: after the loop
ParseSubtitlesDone(r) ==
  /\ run[r].pc = "parse_loop" /\ CanStep(r)
  /\ run[r].srtIdx >= run[r].mem.srtFiles
  /\ Exec(r, <<Log("Parsed subtitle files")>>, [run[r] EXCEPT !.pc = "analyze"])

\* the key moments an LLM may select: an episode and a time range in it
KeyMoments ==
  {[episodeId |-> "S01E01", startTime |-> 0, endTime |-> 1],
   [episodeId |-> "S01E02", startTime |-> 1, endTime |-> 3]}

\* analyzeWithLLM up to the call of provider.selectKeyMoments
AnalyzeWithLLM(r) ==
  /\ run[r].pc = "analyze" /\ CanStep(r)
  /\ Exec(r,
          <<US("analyzing", 0), Log("Analyzing"), Log("Target duration"),
            UP(30), Log("Requesting key moments from AI")>>,
          [run[r] EXCEPT !.pc = "llm_moments",
                         !.trace = Append(@, "selectKeyMoments")])

\* provider.selectKeyMoments returns or throws
SelectKeyMomentsReturn(r) ==
  /\ run[r].pc = "llm_moments" /\ CanStep(r)
  /\ \E ok \in BOOLEAN, moments \in SeqsUpTo(KeyMoments, MaxMoments) :
       IF ~ok THEN moments = <<>> /\ Exec(r, <<Throw("LLM call failed")>>, run[r])
       ELSE IF cfg.mode = "B"
         THEN Exec(r,
                   <<Log("AI selected key moments"), UP(70),
                     Log("Generating narrative script")>>,
                   [run[r] EXCEPT !.pc = "llm_narrative",
                                  !.moments = moments,
                                  !.trace = Append(@, "generateNarrativeForSummary")])
         ELSE Exec(r,
                   <<Log("AI selected key moments"), UP(100),
                     Log("AI analysis complete")>>,
                   [run[r] EXCEPT !.pc = "clips", !.moments = moments])

\* parseNarrativeResponse rejects a response without narrative text
parseNarrativeResponseThrows(fullNarrative) == fullNarrative = ""

\* provider.generateNarrativeForSummary returns or throws (mode B)
GenerateNarrativeReturn(r) ==
  /\ run[r].pc = "llm_narrative" /\ CanStep(r)
  /\ \E ok \in BOOLEAN, fullNarrative \in {"", "text"} :
       IF ~ok THEN Exec(r, <<Throw("LLM call failed")>>, run[r])
       ELSE IF parseNarrativeResponseThrows(fullNarrative)
         THEN Exec(r, <<Throw("Failed to parse narrative response")>>, run[r])
       ELSE Exec(r,
                 <<Log("Narrative generated"), UP(100), Log("AI analysis complete")>>,
                 [run[r] EXCEPT !.pc = "clips", !.narrative = fullNarrative])

\* findMatchingVideoFromList: the path of the video file of an episode
videoPathOf(episodeId) == <<"video", episodeId>>

\* the loop of generateClipSpecs: one clip per moment whose episode has a video
\* file, in the order of the moments; `order` is the moment's position
clipsOfMoments(moments, withVideo) ==
  LET all == [i \in 1..Len(moments) |->
                [episodeId |-> moments[i].episodeId,
                 videoPath |-> videoPathOf(moments[i].episodeId),
                 startTime |-> moments[i].startTime,
                 endTime |-> moments[i].endTime,
                 order |-> i]]
  IN SelectSeq(all, LAMBDA c : c.episodeId \in withVideo)

\* generateClipSpecs up to the writing of clips.json
GenerateClipSpecs(r) ==
  /\ run[r].pc = "clips" /\ CanStep(r)
  /\ \E withVideo \in SUBSET Episodes :
       LET moments == run[r].moments
           unmatched == SelectSeq(moments, LAMBDA m : m.episodeId \notin withVideo)
       IN Exec(r,
               <<US("generating_clips", 0), Log("Generating clip specifications")>> \o
                 [i \in 1..Len(unmatched) |-> Log("No video file found for episode")],
               [run[r] EXCEPT !.pc = "clips_save",
                              !.clips = clipsOfMoments(moments, withVideo)])

\* generateClipSpecs: job.outputs.clipsJsonPath is set and `job` is saved
SaveClipsJsonPath(r) ==
  /\ run[r].pc = "clips_save" /\ CanStep(r)
  /\ LET job == [run[r].mem EXCEPT !.outputs.clipsJsonPath = TRUE] IN
     /\ disk' = save(disk, job)
     /\ run' = [run EXCEPT ![r] = [@ EXCEPT !.mem = job, !.pc = "clips_done"]]
  /\ UNCHANGED <<version, cfg, launched, lastResp, pj, pres, rm, fnVars>>

\* generateClipSpecs: the closing log line and progress update
GenerateClipSpecsDone(r) ==
  /\ run[r].pc = "clips_done" /\ CanStep(r)
  /\ Exec(r, <<Log("Generated clips"), UP(100)>>, [run[r] EXCEPT !.pc = "video"])

videoClipsUntrimmed(clips) ==
  [i \in 1..Len(clips) |->
     [videoPath |-> clips[i].videoPath, startTime |-> 0, endTime |-> clips[i].endTime]]

\* processVideo: clips.map to VideoClip
videoClipsOf(clips) ==
  [i \in 1..Len(clips) |->
     [videoPath |-> clips[i].videoPath,
      startTime |-> clips[i].startTime,
      endTime |-> clips[i].endTime]]

\* FFmpegProcessor.extractClip: the arguments given to ffmpeg
extractClip(clip) ==
  [videoPath |-> clip.videoPath, ss |-> clip.startTime,
   t |-> clip.endTime - clip.startTime]

\* processVideo up to the call of processClipsToVideo
ProcessVideo(r) ==
  /\ run[r].pc = "video" /\ CanStep(r)
  /\ Exec(r,
          <<US("processing_video", 0), Log("Processing video clips"),
            Log("Extracting clips")>>,
          [run[r] EXCEPT !.pc = "ffmpeg",
                         !.trace = Append(@, "processClipsToVideo")])

\* processClipsToVideo returns or throws: clip by clip it asks ffmpeg for the
\* extraction, then for the concatenation of the clip files in the same order;
\* `failsAt` is the ffmpeg call that fails (0: none, n + 1: both concatenations)
ProcessVideoReturn(r) ==
  /\ run[r].pc = "ffmpeg" /\ CanStep(r)
  /\ LET videoClips == videoClipsOf(run[r].clips)
         n == Len(videoClips)
     IN \E failsAt \in 0..(n + 1) :
          LET tried == IF failsAt = 0 THEN n ELSE IF failsAt > n THEN n ELSE failsAt
              pre == [run[r] EXCEPT
                        !.extracted = [i \in 1..tried |-> extractClip(videoClips[i])],
                        !.concatenated = IF failsAt = 0 \/ failsAt > n
                                           THEN [i \in 1..n |-> i] ELSE <<>>]
          IN ExecFrom(r,
                      IF failsAt # 0 THEN <<Throw("FFmpeg failed")>>
                      ELSE <<Log("Video processing complete"), UP(100)>>,
                      pre, [pre EXCEPT !.pc = "srt"])

wantsNarrationAlways(mode, narrative) == TRUE

\* run(): `job.config.mode === 'B' && narrative`
wantsNarration(mode, narrative) ==
  mode = "B" /\ narrative # "unset" /\ narrative # ""

\* generateSrt: clips.map to ClipDefinition
clipDefinitionsOf(clips) ==
  [i \in 1..Len(clips) |->
     [episodeId |-> clips[i].episodeId,
      videoPath |-> clips[i].videoPath,
      startTime |-> clips[i].startTime,
      endTime |-> clips[i].endTime,
      order |-> clips[i].order]]

\* generateSrt: remaps and writes the subtitle file (all synchronous)
GenerateSrt(r) ==
  /\ run[r].pc = "srt" /\ CanStep(r)
  /\ LET pre == [run[r] EXCEPT !.clipDefinitions = clipDefinitionsOf(run[r].clips),
                               !.trace = Append(@, "generateSrt")]
     IN ExecFrom(r,
                 <<US("generating_srt", 0), Log("Generating subtitles"),
                   Log("Subtitles generated"), UP(100)>>,
                 pre,
                 [pre EXCEPT !.pc = IF wantsNarration(cfg.mode, run[r].narrative)
                                      THEN "tts" ELSE "outputs"])

\* generateTTS up to the call of synthesizeToFile
GenerateTTS(r) ==
  /\ run[r].pc = "tts" /\ CanStep(r)
  /\ Exec(r, <<US("generating_tts", 0)>>,
          [run[r] EXCEPT !.pc = "tts_wait",
                         !.trace = Append(@, "synthesizeToFile")])

\* synthesizeToFile returns or throws
GenerateTTSReturn(r) ==
  /\ run[r].pc = "tts_wait" /\ CanStep(r)
  /\ \E ok \in BOOLEAN :
       Exec(r, IF ~ok THEN <<Throw("Speech synthesis failed")>> ELSE <<UP(100)>>,
            [run[r] EXCEPT !.pc = "mix"])

\* mixAudio up to the call of ffmpeg.removeAudio
MixAudio(r) ==
  /\ run[r].pc = "mix" /\ CanStep(r)
  /\ Exec(r, <<US("mixing_audio", 0)>>,
          [run[r] EXCEPT !.pc = "mix_remove_wait",
                         !.trace = Append(@, "removeAudio")])

\* ffmpeg.removeAudio returns or throws; then ffmpeg.mixAudioWithVideo is called
RemoveAudioReturn(r) ==
  /\ run[r].pc = "mix_remove_wait" /\ CanStep(r)
  /\ \E ok \in BOOLEAN :
       Exec(r, IF ~ok THEN <<Throw("FFmpeg failed")>> ELSE <<UP(50)>>,
            [run[r] EXCEPT !.pc = "mix_mux_wait",
                           !.trace = Append(@, "mixAudioWithVideo")])

\* ffmpeg.mixAudioWithVideo returns or throws
MixAudioReturn(r) ==
  /\ run[r].pc = "mix_mux_wait" /\ CanStep(r)
  /\ \E ok \in BOOLEAN :
       Exec(r, IF ~ok THEN <<Throw("FFmpeg failed")>> ELSE <<UP(100)>>,
            [run[r] EXCEPT !.pc = "narrative_srt"])

\* generateNarrativeSrt, then run() points job.outputs.videoPath at the narrated video
GenerateNarrativeSrt(r) ==
  /\ run[r].pc = "narrative_srt" /\ CanStep(r)
  /\ run' = [run EXCEPT ![r] =
       [@ EXCEPT !.mem = [@ EXCEPT !.outputs.videoPath = "narrated"],
                 !.trace = Append(@, "generateNarrativeSrt"),
                 !.pc = "outputs"]]
  /\ UNCHANGED <<version, cfg, disk, launched, lastResp, pj, pres, rm, fnVars>>

\* run() returns or rejects: its locals are gone
Leave(rec) ==
  [rec EXCEPT !.moments = <<>>, !.clips = <<>>, !.extracted = <<>>,
              !.concatenated = <<>>, !.clipDefinitions = <<>>]

\* run(): the output paths are stored in `job`
WithOutputs(job, narrated) ==
  [job EXCEPT !.outputs.videoPath = IF @ = "none" THEN "summary" ELSE @,
              !.outputs.srtPath = TRUE,
              !.outputs.narrativeSrtPath = narrated,
              !.outputs.audioPath = narrated]

\* run(), current version: `job` is saved with all outputs ...
SaveOutputs(r) ==
  /\ run[r].pc = "outputs" /\ CanStep(r) /\ version = 2
  /\ LET job == WithOutputs(run[r].mem, wantsNarration(cfg.mode, run[r].narrative)) IN
     /\ disk' = save(disk, job)
     /\ run' = [run EXCEPT ![r] = [@ EXCEPT !.mem = job, !.pc = "complete"]]
  /\ UNCHANGED <<version, cfg, launched, lastResp, pj, pres, rm, fnVars>>

\* ... and then the status is set to completed
Complete(r) ==
  /\ run[r].pc = "complete" /\ CanStep(r) /\ version = 2
  /\ Exec(r, <<Log("Pipeline completed successfully"), US("completed", 100)>>,
          Leave([run[r] EXCEPT !.pc = "done", !.result = "resolved"]))

\* run(), earlier version: the status is set to completed ...
CompleteEarlier(r) ==
  /\ run[r].pc = "outputs" /\ CanStep(r) /\ version = 1
  /\ Exec(r, <<US("completed", 100)>>,
          [run[r] EXCEPT !.mem = WithOutputs(@, wantsNarration(cfg.mode, run[r].narrative)),
                         !.pc = "save_earlier"])

\* ... and then `job` is saved
SaveOutputsEarlier(r) ==
  /\ run[r].pc = "save_earlier" /\ CanStep(r) /\ version = 1
  /\ disk' = save(disk, run[r].mem)
  /\ run' = [run EXCEPT ![r] = Leave([@ EXCEPT !.pc = "done", !.result = "resolved"])]
  /\ UNCHANGED <<version, cfg, launched, lastResp, pj, pres, rm, fnVars>>

\* run(): the catch block
Catch(r) ==
  /\ run[r].pc = "catch" /\ CanStep(r)
  /\ IF ~get(disk).exists
       THEN /\ run' = [run EXCEPT ![r] =
                    Leave([@ EXCEPT !.pc = "rejected", !.result = NotFound])]
            /\ UNCHANGED disk
       ELSE /\ disk' = setFailed(disk, run[r].err)
            /\ run' = [run EXCEPT ![r] =
                    Leave([@ EXCEPT !.pc = "rejected", !.result = run[r].err])]
  /\ UNCHANGED <<version, cfg, launched, lastResp, pj, pres, rm, fnVars>>

(***************************************************************************)
(* API request handlers                                                    *)
(***************************************************************************)
startAllowedAlways(job) == TRUE

\* POST /api/jobs/:id/start: only a pending job is started
startAllowed(job) == job.status = "pending"

\* POST /api/jobs/:id/start
StartJob ==
  /\ HandlerMayRun /\ launched < MaxRuns
  /\ LET job == get(disk) IN
     IF ~job.exists
       THEN /\ lastResp' = "404 Job not found"
            /\ UNCHANGED <<run, launched>>
     ELSE IF ~startAllowed(job)
       THEN /\ lastResp' = "400 Job has already been started"
            /\ UNCHANGED <<run, launched>>
     ELSE /\ lastResp' = "Job started"
          /\ launched' = launched + 1
          /\ run' = [run EXCEPT ![launched + 1] =
                       [IdleRun EXCEPT !.pc = "begin", !.mem = job]]
  /\ UNCHANGED <<version, cfg, disk, pj, pres, rm, fnVars>>

\* POST /api/upload/:jobId/srt and /video
UploadFiles ==
  /\ HandlerMayRun
  /\ \E type \in {"srt", "video"} :
       LET job == get(disk) IN
       IF ~job.exists
         THEN lastResp' = "404 Job not found" /\ UNCHANGED disk
       ELSE IF job.status # "pending"
         THEN lastResp' = "400 Cannot upload files after job has started"
              /\ UNCHANGED disk
       ELSE /\ (IF type = "srt" THEN job.srtFiles ELSE job.videoFiles) < MaxFiles
            /\ disk' = addFiles(disk, type)
            /\ lastResp' = "files uploaded"
  /\ UNCHANGED <<version, cfg, run, launched, pj, pres, rm, fnVars>>

\* DELETE /api/jobs/:id (JobStore.delete)
DeleteJob ==
  /\ HandlerMayRun
  /\ IF ~get(disk).exists
       THEN lastResp' = "404 Job not found" /\ UNCHANGED disk
       ELSE disk' = NoJob /\ lastResp' = "Job deleted"
  /\ UNCHANGED <<version, cfg, run, launched, pj, pres, rm, fnVars>>

(***************************************************************************)
(* calculateOverallProgress                                                *)
(***************************************************************************)
RECURSIVE indexOf(_, _, _)
\* Array.prototype.indexOf, 0-based, -1 when absent (i: 1-based position to look at)
indexOf(seq, x, i) ==
  IF i > Len(seq) THEN -1
  ELSE IF seq[i] = x THEN i - 1
  ELSE indexOf(seq, x, i + 1)

IsTtsStage(s) == s = "generating_tts" \/ s = "mixing_audio"

relevantStages(mode) ==
  IF mode = "A" THEN SelectSeq(Stages, LAMBDA s : ~IsTtsStage(s)) ELSE Stages

Min(a, b) == IF a < b THEN a ELSE b

calculateOverallProgressUncapped(job) ==
  LET rel == relevantStages(job.mode)
      currentIndex == indexOf(rel, job.status, 1)
  IN IF currentIndex = -1 THEN 0
     ELSE IF job.status = "failed" THEN job.stageProgress
     ELSE IF job.status = "completed" THEN 100
     ELSE RoundDiv(currentIndex * 100 + job.stageProgress, Len(rel) - 1)

\* calculateOverallProgress(job); baseProgress + stageProgress is
\* (currentIndex * 100 + job.progress.stageProgress) / (relevantStages.length - 1)
calculateOverallProgress(job) ==
  LET rel == relevantStages(job.mode)
      currentIndex == indexOf(rel, job.status, 1)
  IN IF currentIndex = -1 THEN 0
     ELSE IF job.status = "failed" THEN job.stageProgress
     ELSE IF job.status = "completed" THEN 100
     ELSE Min(99, RoundDiv(currentIndex * 100 + job.stageProgress, Len(rel) - 1))

\* the fields of a stored job that calculateOverallProgress reads
ProgressView(job, c) ==
  [mode |-> c.mode, status |-> job.status, stageProgress |-> job.stageProgress]

NoProbe == [mode |-> "A", status |-> "pending", stageProgress |-> 0]

\* GET /api/jobs/:id
GetJob ==
  /\ HandlerMayRun
  /\ LET job == get(disk) IN
     IF ~job.exists
       THEN lastResp' = "404 Job not found" /\ UNCHANGED <<pj, pres>>
       ELSE /\ pj' = ProgressView(job, cfg)
            /\ pres' = calculateOverallProgress(ProgressView(job, cfg))
            /\ lastResp' = "job"
  /\ UNCHANGED <<version, cfg, disk, run, launched, rm, fnVars>>

(***************************************************************************)
(* remapSubtitlesToClips                                                   *)
(***************************************************************************)
Times == 0..MaxTime

TimeRanges == {tr \in Times \X Times : tr[1] <= tr[2]}

ClipDefinitions ==
  {[episodeId |-> e, startTime |-> tr[1], endTime |-> tr[2]] :
     e \in Episodes, tr \in TimeRanges}

\* the entries of one episode as parseSrtFile returns them: file order, the index
\* and text of each block (the text is identified by episode and block number)
EntriesOf(ep, ranges) ==
  [i \in 1..Len(ranges) |->
     [episodeId |-> ep, index |-> i, startTime |-> ranges[i][1],
      endTime |-> ranges[i][2], text |-> <<ep, i>>]]

inClipByStart(entry, clip) == entry.startTime >= clip.startTime

\* the filter of remapSubtitlesToClips
inClip(entry, clip) ==
  entry.startTime >= clip.startTime /\ entry.endTime <= clip.endTime

\* episodeSubtitles.get(id) ?? []
entriesOfEpisode(subs, id) == IF id \in DOMAIN subs THEN subs[id] ELSE <<>>

RmIdle ==
  [clips |-> <<>>, subs |-> <<>>, pos |-> 0, currentOffset |-> 0, index |-> 1,
   remapped |-> <<>>, owner |-> <<>>, offsets |-> <<>>, total |-> -1]

\* remapSubtitlesToClips is called: its locals are initialised
RmStart(clips, subs) ==
  [clips |-> clips, subs |-> subs, pos |-> 1, currentOffset |-> 0, index |-> 1,
   remapped |-> <<>>,
   owner |-> <<>>,     \* for each emitted entry, the position of its clip
   offsets |-> <<>>,   \* for each processed clip, currentOffset when it was processed
   total |-> -1]       \* what calculateTotalDuration(clips) returned (-1: not called)

\* one iteration of `for (const clip of clips)`
RemapClip ==
  /\ rm.pos >= 1 /\ rm.pos <= Len(rm.clips)
  /\ LET clip == rm.clips[rm.pos]
         entries == entriesOfEpisode(rm.subs, clip.episodeId)
         clipSubtitles == SelectSeq(entries, LAMBDA e : inClip(e, clip))
         emitted ==
           [k \in 1..Len(clipSubtitles) |->
              [index |-> rm.index + k - 1,
               startTime |-> rm.currentOffset + (clipSubtitles[k].startTime - clip.startTime),
               endTime |-> rm.currentOffset + (clipSubtitles[k].endTime - clip.startTime),
               text |-> clipSubtitles[k].text,
               originalEpisodeId |-> clip.episodeId,
               originalStartTime |-> clipSubtitles[k].startTime]]
     IN rm' = [rm EXCEPT
                 !.remapped = @ \o emitted,
                 !.owner = @ \o [k \in 1..Len(clipSubtitles) |-> rm.pos],
                 !.offsets = Append(@, rm.currentOffset),
                 !.index = @ + Len(clipSubtitles),
                 !.currentOffset = @ + (clip.endTime - clip.startTime),
                 !.pos = @ + 1]
  /\ UNCHANGED <<version, cfg, disk, run, launched, lastResp, pj, pres, fnVars>>

\* `return remapped`
RemapReturn ==
  /\ rm.pos = Len(rm.clips) + 1
  /\ rm' = [rm EXCEPT !.pos = -1]
  /\ UNCHANGED <<version, cfg, disk, run, launched, lastResp, pj, pres, fnVars>>

RemapDone == rm.pos = -1

RECURSIVE reduceDuration(_, _, _)
\* clips.reduce((sum, clip) => sum + (clip.endTime - clip.startTime), 0), from clip i on
reduceDuration(clips, i, sum) ==
  IF i > Len(clips) THEN sum
  ELSE reduceDuration(clips, i + 1, sum + (clips[i].endTime - clips[i].startTime))

calculateTotalDurationOfEnds(clips) ==
  reduceDuration([i \in 1..Len(clips) |-> [clips[i] EXCEPT !.startTime = 0]], 1, 0)

calculateTotalDuration(clips) == reduceDuration(clips, 1, 0)

\* calculateTotalDuration is called on the clip list given to the remapper
TotalDuration ==
  /\ rm.pos # 0 /\ rm.total = -1
  /\ rm' = [rm EXCEPT !.total = calculateTotalDuration(rm.clips)]
  /\ UNCHANGED <<version, cfg, disk, run, launched, lastResp, pj, pres, fnVars>>

(***************************************************************************)
(* Strings.  A string is the sequence of its characters, each a string of *)
(* length one; the operators below are the String methods the code uses.  *)
(***************************************************************************)
DigitChars == <<"0", "1", "2", "3", "4", "5", "6", "7", "8", "9">>

IsDigit(c) == \E d \in 1..10 : DigitChars[d] = c

digitValue(c) == (CHOOSE d \in 1..10 : DigitChars[d] = c) - 1

\* what String.prototype.trim removes and \s matches
Whitespace == {" ", "\t", "\n", "\r"}

RECURSIVE toString(_)
\* Number.prototype.toString of an integer n >= 0
toString(n) ==
  IF n < 10 THEN <<DigitChars[n + 1]>>
  ELSE toString(n \div 10) \o <<DigitChars[(n % 10) + 1]>>

RECURSIVE padStart(_, _, _)
padStart(s, len, c) == IF Len(s) >= len THEN s ELSE padStart(<<c>> \o s, len, c)

RECURSIVE padEnd(_, _, _)
padEnd(s, len, c) == IF Len(s) >= len THEN s ELSE padEnd(Append(s, c), len, c)

RECURSIVE flatten(_)
\* the concatenation of a sequence of strings (by halves: the strings are long)
flatten(parts) ==
  IF parts = <<>> THEN <<>>
  ELSE IF Len(parts) = 1 THEN parts[1]
  ELSE LET h == Len(parts) \div 2 IN
       flatten(SubSeq(parts, 1, h)) \o flatten(SubSeq(parts, h + 1, Len(parts)))

\* the k-th smallest element of a set of positions
nth(positions, k) ==
  CHOOSE p \in positions : Cardinality({q \in positions : q < p}) = k - 1

\* s.split(c) for a one-character separator
split(s, c) ==
  LET seps == {i \in 1..Len(s) : s[i] = c}
      n == Cardinality(seps)
      bound(k) == IF k = 0 THEN 0 ELSE IF k > n THEN Len(s) + 1 ELSE nth(seps, k)
  IN [k \in 1..(n + 1) |-> SubSeq(s, bound(k - 1) + 1, bound(k) - 1)]

\* parts.join(sep)
join(parts, sep) ==
  flatten([i \in 1..Len(parts) |-> IF i = 1 THEN parts[1] ELSE sep \o parts[i]])

\* the first and the last position of s that hold no white space (0: none)
firstKept(s) ==
  IF \A i \in 1..Len(s) : s[i] \in Whitespace THEN 0
  ELSE CHOOSE i \in 1..Len(s) :
         s[i] \notin Whitespace /\ \A j \in 1..(i - 1) : s[j] \in Whitespace

lastKept(s) ==
  IF \A i \in 1..Len(s) : s[i] \in Whitespace THEN 0
  ELSE CHOOSE i \in 1..Len(s) :
         s[i] \notin Whitespace /\ \A j \in (i + 1)..Len(s) : s[j] \in Whitespace

\* s.trim()
trim(s) == IF firstKept(s) = 0 THEN <<>> ELSE SubSeq(s, firstKept(s), lastKept(s))

\* s.trimStart()
trimStart(s) == IF firstKept(s) = 0 THEN <<>> ELSE SubSeq(s, firstKept(s), Len(s))

\* s.replace(a, b) for a one-character pattern a: the first occurrence only
replaceFirst(s, a, b) ==
  LET found == {i \in 1..Len(s) : s[i] = a} IN
  IF found = {} THEN s
  ELSE LET i == CHOOSE x \in found : \A y \in found : x <= y IN
       SubSeq(s, 1, i - 1) \o b \o SubSeq(s, i + 1, Len(s))

RECURSIVE digitsValue(_, _, _)
\* the value of the digits of s from position i on, up to the first non-digit
digitsValue(s, i, acc) ==
  IF i > Len(s) \/ ~IsDigit(s[i]) THEN acc
  ELSE digitsValue(s, i + 1, acc * 10 + digitValue(s[i]))

\* parseInt(s, 10): leading white space, an optional sign, then the digits up to
\* the first other character; NaN when there is no digit
parseInt(s) ==
  LET t == trimStart(s)
      signed == t # <<>> /\ t[1] \in {"-", "+"}
      u == IF signed THEN Tail(t) ELSE t
  IN IF u = <<>> \/ ~IsDigit(u[1]) THEN [nan |-> TRUE, value |-> 0]
     ELSE [nan |-> FALSE,
           value |-> IF signed /\ t[1] = "-" THEN 0 - digitsValue(u, 1, 0)
                                              ELSE digitsValue(u, 1, 0)]

(***************************************************************************)
(* srtParser.ts.  A time is a number of ticks, TicksPerMs ticks to the    *)
(* millisecond, so that times between two milliseconds exist.             *)
(***************************************************************************)
TicksPerSecond == 1000 * TicksPerMs

\* a timestamp that srtTimeToSeconds rejects or cannot read
Invalid(why) == [kind |-> why, ticks |-> 0]

srtTimeToSeconds(timestamp) ==
  LET normalized == replaceFirst(timestamp, ",", <<".">>)
      parts == split(normalized, ":")
  IN IF Len(parts) # 3 THEN Invalid("throws")
     ELSE LET hours == parseInt(parts[1])
              minutes == parseInt(parts[2])
              secondsParts == split(parts[3], ".")
              seconds == parseInt(secondsParts[1])
              milliseconds ==
                parseInt(padEnd(IF Len(secondsParts) >= 2 THEN secondsParts[2]
                                                           ELSE <<"0">>, 3, "0"))
          IN IF hours.nan \/ minutes.nan \/ seconds.nan \/ milliseconds.nan
               THEN Invalid("NaN")
               ELSE [kind |-> "number",
                     ticks |-> (hours.value * 3600 + minutes.value * 60 + seconds.value)
                                 * TicksPerSecond
                               + milliseconds.value * TicksPerMs]

\* Math.round((seconds % 1) * 1000) of a time in ticks
roundedMilliseconds(ticks) ==
  (2 * (ticks % TicksPerSecond) + TicksPerMs) \div (2 * TicksPerMs)

secondsToSrtTime(ticks) ==
  LET hours == ticks \div (3600 * TicksPerSecond)
      minutes == (ticks % (3600 * TicksPerSecond)) \div (60 * TicksPerSecond)
      secs == (ticks % (60 * TicksPerSecond)) \div TicksPerSecond
      ms == roundedMilliseconds(ticks)
  IN padStart(toString(hours), 2, "0") \o <<":">>
       \o padStart(toString(minutes), 2, "0") \o <<":">>
       \o padStart(toString(secs), 2, "0") \o <<",">>
       \o padStart(toString(ms), 3, "0")

\* \d{2}:\d{2}:\d{2}[,\.]\d{3} matches at position i of line
timestampAt(line, i) ==
  /\ i + 11 <= Len(line)
  /\ \A k \in {0, 1, 3, 4, 6, 7, 9, 10, 11} : IsDigit(line[i + k])
  /\ line[i + 2] = ":" /\ line[i + 5] = ":"
  /\ line[i + 8] \in {",", "."}

\* \s* from position i: the first position that holds no white space
skipWhitespace(line, i) ==
  LET rest == {j \in i..Len(line) : line[j] \notin Whitespace} IN
  IF rest = {} THEN Len(line) + 1 ELSE CHOOSE j \in rest : \A k \in rest : j <= k

\* the regular expression of parseSrtContent tried at position i: the position
\* of its second timestamp, 0 when it does not match there
arrowMatchAt(line, i) ==
  IF ~timestampAt(line, i) THEN 0
  ELSE LET j == skipWhitespace(line, i + 12) IN
       IF j + 2 <= Len(line) /\ SubSeq(line, j, j + 2) = <<"-", "-", ">">>
         THEN LET k == skipWhitespace(line, j + 3) IN
              IF timestampAt(line, k) THEN k ELSE 0
         ELSE 0

\* timestampLine.match(...): the leftmost match and its two groups
timestampMatch(line) ==
  LET starts == {i \in 1..Len(line) : arrowMatchAt(line, i) # 0} IN
  IF starts = {} THEN [matched |-> FALSE, first |-> <<>>, second |-> <<>>]
  ELSE LET i == CHOOSE x \in starts : \A y \in starts : x <= y
           k == arrowMatchAt(line, i)
       IN [matched |-> TRUE,
           first |-> SubSeq(line, i, i + 11),
           second |-> SubSeq(line, k, k + 11)]

\* content.replace(/\r\n/g, '\n').replace(/\r/g, '\n'): a carriage return before
\* a newline disappears, every other one becomes a newline
normalizeLineEndings(s) ==
  flatten([i \in 1..Len(s) |->
             IF s[i] = "\r" /\ i < Len(s) /\ s[i + 1] = "\n" THEN <<>>
             ELSE IF s[i] = "\r" THEN <<"\n">>
             ELSE <<s[i]>>])

\* position i of s lies in a match of /\n\n+/: a newline next to a newline
inBlockSeparator(s, i) ==
  /\ s[i] = "\n"
  /\ \/ i > 1 /\ s[i - 1] = "\n"
     \/ i < Len(s) /\ s[i + 1] = "\n"

\* normalizedContent.split(/\n\n+/).filter((block) => block.trim()): the pieces
\* between the separators; the empty pieces split() returns are filtered out
splitBlocks(s) ==
  LET inside == {i \in 1..Len(s) : ~inBlockSeparator(s, i)}
      starts == {i \in inside : i - 1 \notin inside}
      ends == {i \in inside : i + 1 \notin inside}
      pieces == [k \in 1..Cardinality(starts) |->
                   SubSeq(s, nth(starts, k), nth(ends, k))]
  IN SelectSeq(pieces, LAMBDA block : trim(block) # <<>>)

\* one iteration of the loop of parseSrtContent: the entry pushed for the block,
\* if any, and whether srtTimeToSeconds threw
parseBlock(block) ==
  LET lines == SelectSeq(split(block, "\n"), LAMBDA line : trim(line) # <<>>)
      skip == [thrown |-> FALSE, entries |-> <<>>]
  IN IF Len(lines) < 3 THEN skip
     ELSE LET index == parseInt(trim(lines[1]))
              m == timestampMatch(lines[2])
          IN IF index.nan THEN skip
             ELSE IF ~m.matched THEN skip
             ELSE LET startTime == srtTimeToSeconds(m.first)
                      endTime == srtTimeToSeconds(m.second)
                      text == trim(join(SubSeq(lines, 3, Len(lines)), <<"\n">>))
                  IN IF startTime.kind = "throws" \/ endTime.kind = "throws"
                       THEN [thrown |-> TRUE, entries |-> <<>>]
                       ELSE [thrown |-> FALSE,
                             entries |-> <<[index |-> index.value,
                                            startTime |-> startTime.ticks,
                                            endTime |-> endTime.ticks,
                                            text |-> text]>>]

RECURSIVE parseBlocks(_, _)
\* the loop of parseSrtContent from block i on
parseBlocks(blocks, i) ==
  IF i > Len(blocks) THEN [thrown |-> FALSE, entries |-> <<>>]
  ELSE LET one == parseBlock(blocks[i]) IN
       IF one.thrown THEN one
       ELSE LET rest == parseBlocks(blocks, i + 1) IN
            [thrown |-> rest.thrown,
             entries |-> IF rest.thrown THEN <<>> ELSE one.entries \o rest.entries]

RECURSIVE parseBlocksUntilMalformed(_, _)
parseBlocksUntilMalformed(blocks, i) ==
  IF i > Len(blocks) THEN <<>>
  ELSE LET one == parseBlock(blocks[i]) IN
       IF one.entries = <<>> THEN <<>>
       ELSE one.entries \o parseBlocksUntilMalformed(blocks, i + 1)

parseSrtContentUntilMalformed(content) ==
  [thrown |-> FALSE,
   entries |-> parseBlocksUntilMalformed(splitBlocks(normalizeLineEndings(content)), 1)]

parseSrtContent(content) ==
  parseBlocks(splitBlocks(normalizeLineEndings(content)), 1)

\* the block generateSrtContent writes for an entry under the number num
srtBlock(num, entry) ==
  toString(num) \o <<"\n">>
    \o secondsToSrtTime(entry.startTime) \o <<" ", "-", "-", ">", " ">>
    \o secondsToSrtTime(entry.endTime) \o <<"\n">>
    \o entry.text

generateSrtContentWithIndex(entries) ==
  join([i \in 1..Len(entries) |-> srtBlock(entries[i].index, entries[i])],
       <<"\n", "\n">>)

generateSrtContent(entries) ==
  join([i \in 1..Len(entries) |-> srtBlock(i, entries[i])], <<"\n", "\n">>)

(***************************************************************************)
(* Calls of the SRT functions on their own                                 *)
(***************************************************************************)
\* subtitle times: whole seconds, whole milliseconds, a time between two
\* milliseconds that rounds up to the next second, and a time of 100 hours
EntryTimes ==
  {<<TicksPerSecond, 4 * TicksPerSecond>>,
   <<5 * TicksPerSecond, 8 * TicksPerSecond + 500 * TicksPerMs>>,
   <<61 * TicksPerSecond + TicksPerMs, 3661 * TicksPerSecond>>,
   <<TicksPerSecond - 2, 2 * TicksPerSecond>>,
   <<360000 * TicksPerSecond, 360001 * TicksPerSecond>>}

\* subtitle texts: one line, two lines, and a line that starts with a space
Texts == {<<"H", "i">>, <<"a", "\n", "b">>, <<" ", "a">>}

SrtEntries ==
  {[index |-> n, startTime |-> tr[1], endTime |-> tr[2], text |-> t] :
     n \in {5, 10}, tr \in EntryTimes, t \in Texts}

TimeLine ==
  <<"0", "0", ":", "0", "0", ":", "0", "1", ",", "0", "0", "0", " ", "-", "-", ">",
    " ", "0", "0", ":", "0", "0", ":", "0", "4", ",", "0", "0", "0">>

\* period separators, no space around the arrow
TimeLineWithPeriods ==
  <<"0", "0", ":", "0", "0", ":", "0", "5", ".", "5", "0", "0", "-", "-", ">",
    "0", "0", ":", "0", "1", ":", "0", "8", ".", "0", "0", "0">>

\* `->` instead of `-->`
TimeLineWithoutArrow ==
  <<"0", "0", ":", "0", "0", ":", "0", "1", ",", "0", "0", "0", " ", "-", ">",
    " ", "0", "0", ":", "0", "0", ":", "0", "4", ",", "0", "0", "0">>

\* a time line whose end is earlier than its start
TimeLineBackwards ==
  <<"0", "0", ":", "0", "0", ":", "0", "4", ",", "0", "0", "0", " ", "-", "-", ">",
    " ", "0", "0", ":", "0", "0", ":", "0", "1", ",", "0", "0", "0">>

\* the blocks of a subtitle file, each with the entries it stands for: two
\* well-formed blocks, a block whose end is before its start, then a one-line
\* block, a block without text, a block with a non-numeric index line and a
\* block without a valid time line
SrtBlocks ==
  {[text |-> <<"1", "\n">> \o TimeLine \o <<"\n", "H", "i">>,
    entries |-> <<[index |-> 1, startTime |-> TicksPerSecond,
                   endTime |-> 4 * TicksPerSecond, text |-> <<"H", "i">>]>>],
   [text |-> <<"7", "\n">> \o TimeLineWithPeriods \o <<"\n", "a", "\n", "b">>,
    entries |-> <<[index |-> 7, startTime |-> 5 * TicksPerSecond + 500 * TicksPerMs,
                   endTime |-> 68 * TicksPerSecond, text |-> <<"a", "\n", "b">>]>>],
   [text |-> <<"2", "\n">> \o TimeLineBackwards \o <<"\n", "H", "i">>,
    entries |-> <<[index |-> 2, startTime |-> 4 * TicksPerSecond,
                   endTime |-> TicksPerSecond, text |-> <<"H", "i">>]>>],
   [text |-> <<"i", "n", "v", "a", "l", "i", "d", " ", "b", "l", "o", "c", "k">>,
    entries |-> <<>>],
   [text |-> <<"3", "\n">> \o TimeLine, entries |-> <<>>],
   [text |-> <<"x", "\n">> \o TimeLine \o <<"\n", "H", "i">>, entries |-> <<>>],
   [text |-> <<"4", "\n">> \o TimeLineWithoutArrow \o <<"\n", "H", "i">>,
    entries |-> <<>>]}

\* the same text with Windows line endings
toCrlf(s) ==
  flatten([i \in 1..Len(s) |-> IF s[i] = "\n" THEN <<"\r", "\n">> ELSE <<s[i]>>])

\* a subtitle file made of the blocks, `gap` newlines between two blocks
fileOfBlocks(blocks, gap, crlf) ==
  LET content == join([i \in 1..Len(blocks) |-> blocks[i].text],
                      [k \in 1..gap |-> "\n"])
  IN IF crlf THEN toCrlf(content) ELSE content

\* the times given to secondsToSrtTime: every tick of the second that follows
\* 0:00:00, 0:00:59, 0:59:59 and 99:59:59
TimeInputs ==
  {w * TicksPerSecond + f : w \in {0, 59, 3599, 359999}, f \in 0..(TicksPerSecond - 1)}

SrtCall(kind, pc) ==
  [pc |-> pc, kind |-> kind, entries |-> <<>>, blocks |-> <<>>, content |-> <<>>,
   parsed |-> [thrown |-> FALSE, entries |-> <<>>], again |-> <<>>,
   seconds |-> 0, formatted |-> <<>>, back |-> Invalid("none")]

\* generateSrtContent(entries)
Generate ==
  /\ srt.pc = "generate"
  /\ srt' = [srt EXCEPT !.content = generateSrtContent(srt.entries), !.pc = "parse"]
  /\ UNCHANGED <<jobVars, epi, nar, tts, pv, llm>>

\* parseSrtContent(content)
Parse ==
  /\ srt.pc = "parse"
  /\ srt' = [srt EXCEPT !.parsed = parseSrtContent(srt.content),
                        !.pc = IF srt.kind = "entries" THEN "regenerate" ELSE "done"]
  /\ UNCHANGED <<jobVars, epi, nar, tts, pv, llm>>

\* generateSrtContent(parseSrtContent(content))
Regenerate ==
  /\ srt.pc = "regenerate"
  /\ srt' = [srt EXCEPT !.again = generateSrtContent(srt.parsed.entries),
                        !.pc = "done"]
  /\ UNCHANGED <<jobVars, epi, nar, tts, pv, llm>>

\* secondsToSrtTime(seconds)
FormatTime ==
  /\ srt.pc = "format"
  /\ srt' = [srt EXCEPT !.formatted = secondsToSrtTime(srt.seconds), !.pc = "read"]
  /\ UNCHANGED <<jobVars, epi, nar, tts, pv, llm>>

\* srtTimeToSeconds(secondsToSrtTime(seconds))
ReadTime ==
  /\ srt.pc = "read"
  /\ srt' = [srt EXCEPT !.back = srtTimeToSeconds(srt.formatted), !.pc = "done"]
  /\ UNCHANGED <<jobVars, epi, nar, tts, pv, llm>>

(***************************************************************************)
(* extractEpisodeIdFromFilename                                            *)
(***************************************************************************)
\* (\d{1,2}) at position i: the digits it takes, most first; none: 0
digitsAt(s, i) ==
  IF i > Len(s) \/ ~IsDigit(s[i]) THEN 0
  ELSE IF i + 1 <= Len(s) /\ IsDigit(s[i + 1]) THEN 2
  ELSE 1

\* (\d{1,2}) at position i followed by one of the characters `next` and a digit:
\* the number of digits the first group ends up with (2 is tried before 1), 0: none
digitsThen(s, i, next) ==
  LET fits(n) == /\ digitsAt(s, i) >= n
                 /\ i + n <= Len(s) /\ s[i + n] \in next
                 /\ digitsAt(s, i + n + 1) > 0
  IN IF fits(2) THEN 2 ELSE IF fits(1) THEN 1 ELSE 0

\* the leftmost position of a set of positions
leftmost(positions) == CHOOSE i \in positions : \A j \in positions : i <= j

NoMatch == [matched |-> FALSE, first |-> <<>>, second |-> <<>>]

\* filename.match(/[Ss](\d{1,2})[Ee](\d{1,2})/)
sPattern(filename) ==
  LET at == {i \in 1..Len(filename) :
               filename[i] \in {"S", "s"} /\ digitsThen(filename, i + 1, {"E", "e"}) # 0}
  IN IF at = {} THEN NoMatch
     ELSE LET i == leftmost(at)
              n == digitsThen(filename, i + 1, {"E", "e"})
          IN [matched |-> TRUE,
              first |-> SubSeq(filename, i + 1, i + n),
              second |-> SubSeq(filename, i + n + 2,
                                i + n + 1 + digitsAt(filename, i + n + 2))]

\* filename.match(/(\d{1,2})x(\d{1,2})/i)
xPattern(filename) ==
  LET at == {i \in 1..Len(filename) : digitsThen(filename, i, {"x", "X"}) # 0}
  IN IF at = {} THEN NoMatch
     ELSE LET i == leftmost(at)
              n == digitsThen(filename, i, {"x", "X"})
          IN [matched |-> TRUE,
              first |-> SubSeq(filename, i, i + n - 1),
              second |-> SubSeq(filename, i + n + 1,
                                i + n + digitsAt(filename, i + n + 1))]

\* [Ee](?:pisode\s*)?(\d{1,2}) at position i: the position of the digits, 0: none
episodeDigitsAt(filename, i) ==
  IF filename[i] \notin {"E", "e"} THEN 0
  ELSE IF i + 6 <= Len(filename)
          /\ SubSeq(filename, i + 1, i + 6) = <<"p", "i", "s", "o", "d", "e">>
          /\ digitsAt(filename, skipWhitespace(filename, i + 7)) > 0
    THEN skipWhitespace(filename, i + 7)
  ELSE IF digitsAt(filename, i + 1) > 0 THEN i + 1
  ELSE 0

\* filename.match(/[Ee](?:pisode\s*)?(\d{1,2})/)
ePattern(filename) ==
  LET at == {i \in 1..Len(filename) : episodeDigitsAt(filename, i) # 0}
  IN IF at = {} THEN NoMatch
     ELSE LET j == episodeDigitsAt(filename, leftmost(at))
          IN [matched |-> TRUE, first |-> <<>>,
              second |-> SubSeq(filename, j, j + digitsAt(filename, j) - 1)]

\* `S${season}E${episode}`
episodeId(season, episode) == <<"S">> \o season \o <<"E">> \o episode

\* null
NoEpisodeId == <<>>

extractEpisodeIdFromFilename(filename) ==
  IF sPattern(filename).matched
    THEN episodeId(padStart(sPattern(filename).first, 2, "0"),
                   padStart(sPattern(filename).second, 2, "0"))
  ELSE IF xPattern(filename).matched
    THEN episodeId(padStart(xPattern(filename).first, 2, "0"),
                   padStart(xPattern(filename).second, 2, "0"))
  ELSE IF ePattern(filename).matched
    THEN episodeId(<<"0", "1">>, padStart(ePattern(filename).second, 2, "0"))
  ELSE NoEpisodeId

\* the episode markers of file names: the text, the pattern it is written in
\* (1: S#E#, 2: #x#, 3: E# or Episode #, 0: no marker) and the id it stands for
EpisodeMarkers ==
  {[text |-> <<"S", "0", "1", "E", "0", "2">>, pattern |-> 1,
    id |-> <<"S", "0", "1", "E", "0", "2">>],
   [text |-> <<"s", "0", "2", "e", "1", "5">>, pattern |-> 1,
    id |-> <<"S", "0", "2", "E", "1", "5">>],
   [text |-> <<"S", "1", "E", "5">>, pattern |-> 1,
    id |-> <<"S", "0", "1", "E", "0", "5">>],
   [text |-> <<"1", "x", "0", "2">>, pattern |-> 2,
    id |-> <<"S", "0", "1", "E", "0", "2">>],
   [text |-> <<"0", "2", "X", "1", "5">>, pattern |-> 2,
    id |-> <<"S", "0", "2", "E", "1", "5">>],
   [text |-> <<"E", "0", "2">>, pattern |-> 3,
    id |-> <<"S", "0", "1", "E", "0", "2">>],
   [text |-> <<"e", "7">>, pattern |-> 3,
    id |-> <<"S", "0", "1", "E", "0", "7">>],
   [text |-> <<"E", "p", "i", "s", "o", "d", "e", " ", "0", "1">>, pattern |-> 3,
    id |-> <<"S", "0", "1", "E", "0", "1">>],
   [text |-> <<"e", "p", "i", "s", "o", "d", "e", "3">>, pattern |-> 3,
    id |-> <<"S", "0", "1", "E", "0", "3">>],
   [text |-> <<"E", "P", "I", "S", "O", "D", "E", " ", "0", "4">>, pattern |-> 3,
    id |-> <<"S", "0", "1", "E", "0", "4">>],
   [text |-> <<"r", "a", "n", "d", "o", "m", "f", "i", "l", "e">>, pattern |-> 0,
    id |-> <<>>]}

\* a file name with the markers, in this order
fileName(prefix, markers, extension) ==
  prefix \o join([i \in 1..Len(markers) |-> markers[i].text], <<".">>) \o extension

\* extractEpisodeIdFromFilename(filename)
ExtractEpisodeId ==
  /\ epi.pc = "call"
  /\ epi' = [epi EXCEPT !.result = extractEpisodeIdFromFilename(epi.filename),
                        !.pc = "done"]
  /\ UNCHANGED <<jobVars, srt, nar, tts, pv, llm>>

(***************************************************************************)
(* generateNarrativeSubtitles.  Times are exact fractions of a second.     *)
(***************************************************************************)
RECURSIVE gcd(_, _)
gcd(a, b) == IF b = 0 THEN a ELSE gcd(b, a % b)

\* the number n / d, in lowest terms (n >= 0, d > 0)
fraction(n, d) == [num |-> n \div gcd(n, d), den |-> d \div gcd(n, d)]

plus(x, y) == fraction(x.num * y.den + y.num * x.den, x.den * y.den)

\* Math.ceil(x / y) for integers x >= 0, y > 0
ceilDiv(x, y) == (x + y - 1) \div y

\* words.slice(i, i + wordsPerSubtitle).join(' ') for every i of the loop
chunksOf(words, wordsPerSubtitle) ==
  [c \in 1..ceilDiv(Len(words), wordsPerSubtitle) |->
     join(SubSeq(words, (c - 1) * wordsPerSubtitle + 1,
                 IF c * wordsPerSubtitle < Len(words) THEN c * wordsPerSubtitle
                                                      ELSE Len(words)),
          <<" ">>)]

\* Math.ceil(words.length / Math.ceil(block.durationSeconds / 8)); for a duration
\* of 0 the quotient is Infinity, and the loop then takes all words in one chunk
wordsPerSubtitle(words, durationSeconds) ==
  IF ceilDiv(durationSeconds, 8) = 0 THEN Len(words)
  ELSE ceilDiv(Len(words), ceilDiv(durationSeconds, 8))

timePerChunkOfEight(durationSeconds, chunkCount) == fraction(8, 1)

\* block.durationSeconds / chunks.length
timePerChunk(durationSeconds, chunkCount) == fraction(durationSeconds, chunkCount)

\* the narrative blocks: a text of words and a duration in seconds
NarrativeBlocks ==
  {[text |-> t, durationSeconds |-> d] :
     t \in {<<"a", " ", "b", " ", "c", " ", "d", " ", "e", " ", "f", " ", "g", " ", "h">>,
            <<"a", " ", "b", " ", "c">>,
            <<"a">>},
     d \in {0, 8, 10, 20}}

\* generateNarrativeSubtitles is called: its locals are initialised
NarStart(blocks, startOffset) ==
  [pc |-> "loop", blocks |-> blocks, startOffset |-> startOffset, pos |-> 1,
   entries |-> <<>>, currentTime |-> fraction(startOffset, 1), index |-> 1,
   owner |-> <<>>]   \* for each entry, the position of its block

\* one iteration of `for (const block of narrativeBlocks)`
NarrateBlock ==
  /\ nar.pc = "loop" /\ nar.pos <= Len(nar.blocks)
  /\ LET block == nar.blocks[nar.pos]
         words == split(block.text, " ")
         chunks == chunksOf(words, wordsPerSubtitle(words, block.durationSeconds))
         perChunk == timePerChunk(block.durationSeconds, Len(chunks))
         timeBefore[c \in 1..(Len(chunks) + 1)] ==
           IF c = 1 THEN nar.currentTime ELSE plus(timeBefore[c - 1], perChunk)
     IN nar' = [nar EXCEPT
                  !.entries = @ \o [c \in 1..Len(chunks) |->
                                      [index |-> nar.index + c - 1,
                                       startTime |-> timeBefore[c],
                                       endTime |-> plus(timeBefore[c], perChunk),
                                       text |-> chunks[c]]],
                  !.owner = @ \o [c \in 1..Len(chunks) |-> nar.pos],
                  !.currentTime = timeBefore[Len(chunks) + 1],
                  !.index = @ + Len(chunks),
                  !.pos = @ + 1]
  /\ UNCHANGED <<jobVars, srt, epi, tts, pv, llm>>

\* `return entries`
NarrateReturn ==
  /\ nar.pc = "loop" /\ nar.pos > Len(nar.blocks)
  /\ nar' = [nar EXCEPT !.pc = "done"]
  /\ UNCHANGED <<jobVars, srt, epi, tts, pv, llm>>

(***************************************************************************)
(* Speech synthesis (AzureSpeechSynthesizer, OpenAISpeechSynthesizer): the *)
(* two classes have the same code and differ in the chunk ceiling and the  *)
(* names of their temporary files.                                         *)
(***************************************************************************)
Providers == {"azure", "openai"}

MAX_CHARS_PER_CHUNK == [azure |-> 2000, openai |-> 4000]

\* the last position of the white space that follows position i (i: none)
spaceEnd(s, i) ==
  CHOOSE e \in i..Len(s) :
    /\ \A j \in (i + 1)..e : s[j] \in Whitespace
    /\ e = Len(s) \/ s[e + 1] \notin Whitespace

\* s.split(re) for a regular expression that matches, after each position of
\* `ends`, the white space that follows it
splitAfter(s, ends) ==
  LET n == Cardinality(ends) IN
  [k \in 1..(n + 1) |->
     SubSeq(s, IF k = 1 THEN 1 ELSE spaceEnd(s, nth(ends, k - 1)) + 1,
               IF k = n + 1 THEN Len(s) ELSE nth(ends, k))]

\* text.split(/(?<=[.!?])\s+/)
splitSentences(text) ==
  splitAfter(text, {i \in 1..(Len(text) - 1) :
                      text[i] \in {".", "!", "?"} /\ text[i + 1] \in Whitespace})

\* sentence.split(/(?<=,)\s*/): an empty match at the end of the string is not a
\* separator
splitOnCommas(sentence) ==
  splitAfter(sentence, {i \in 1..(Len(sentence) - 1) : sentence[i] = ","})

\* currentChunk += (currentChunk ? ' ' : '') + piece
appended(currentChunk, piece) ==
  IF currentChunk = <<>> THEN piece ELSE currentChunk \o <<" ">> \o piece

\* the body of `for (const part of parts)`
addPart(st, part, max) ==
  IF Len(st.currentChunk) + 1 + Len(part) > max
    THEN [chunks |-> IF st.currentChunk # <<>> THEN Append(st.chunks, trim(st.currentChunk))
                                                ELSE st.chunks,
          currentChunk |-> part]
    ELSE [st EXCEPT !.currentChunk = appended(@, part)]

RECURSIVE addParts(_, _, _, _)
addParts(st, parts, k, max) ==
  IF k > Len(parts) THEN st ELSE addParts(addPart(st, parts[k], max), parts, k + 1, max)

\* the body of `for (const sentence of sentences)`
addSentence(st, sentence, max) ==
  IF Len(sentence) > max
    THEN addParts(IF st.currentChunk # <<>>
                    THEN [chunks |-> Append(st.chunks, trim(st.currentChunk)),
                          currentChunk |-> <<>>]
                    ELSE st,
                  splitOnCommas(sentence), 1, max)
  ELSE IF Len(st.currentChunk) + 1 + Len(sentence) > max
    THEN [chunks |-> Append(st.chunks, trim(st.currentChunk)), currentChunk |-> sentence]
  ELSE [st EXCEPT !.currentChunk = appended(@, sentence)]

RECURSIVE addSentences(_, _, _, _)
addSentences(st, sentences, k, max) ==
  IF k > Len(sentences) THEN st
  ELSE addSentences(addSentence(st, sentences[k], max), sentences, k + 1, max)

splitTextIntoChunks(text, max) ==
  IF Len(text) <= max THEN <<text>>
  ELSE LET st == addSentences([chunks |-> <<>>, currentChunk |-> <<>>],
                              splitSentences(text), 1, max)
       IN IF trim(st.currentChunk) # <<>> THEN Append(st.chunks, trim(st.currentChunk))
                                          ELSE st.chunks

\* n letters
letters(n) == [i \in 1..n |-> "a"]

\* the sentences of the texts, for a ceiling of max characters: a short one, one
\* of exactly max characters, a long one with a comma in the middle, a long one
\* of words without a comma, a long one without any white space or comma, and a
\* long one whose part before the comma is itself too long
Sentences(max) ==
  {<<"H", "i", ".">>,
   letters(max - 1) \o <<"?">>,
   letters(max \div 2 + 1) \o <<",", " ">> \o letters(max \div 2 + 1) \o <<"!">>,
   letters(max \div 2) \o <<" ">> \o letters(max \div 2) \o <<".">>,
   letters(max + 1) \o <<".">>,
   letters(max + 1) \o <<",", "b", ".">>}

\* the texts to synthesize: up to MaxSentences sentences, one space in between
SpokenTexts(max) == {join(ss, <<" ">>) : ss \in SeqsUpTo(Sentences(max), MaxSentences)}

\* splitTextIntoChunks is called
SplitText ==
  /\ tts.pc = "split"
  /\ tts' = [pc |-> "chunked", provider |-> tts.provider, text |-> tts.text,
             chunks |-> splitTextIntoChunks(tts.text, MAX_CHARS_PER_CHUNK[tts.provider])]
  /\ UNCHANGED <<jobVars, srt, epi, nar, pv, llm>>

\* the audio file the caller asks for
outputPath == <<"o", "u", "t", ".", "m", "p", "3">>

\* `tts_chunk_${i.toString().padStart(3, '0')}.mp3`, with openai_ in front for
\* OpenAI; all files are in path.dirname(outputPath)
chunkPathOf(provider, i) ==
  (IF provider = "openai" THEN <<"o", "p", "e", "n", "a", "i", "_">> ELSE <<>>)
    \o <<"t", "t", "s", "_", "c", "h", "u", "n", "k", "_">>
    \o padStart(toString(i), 3, "0") \o <<".", "m", "p", "3">>

\* audio_concat_list.txt, openai_audio_concat_list.txt
concatFilePath(provider) ==
  (IF provider = "openai" THEN <<"o", "p", "e", "n", "a", "i", "_">> ELSE <<>>)
    \o <<"a", "u", "d", "i", "o", "_", "c", "o", "n", "c", "a", "t", "_",
         "l", "i", "s", "t", ".", "t", "x", "t">>

\* existsSync and unlinkSync of each of the paths
unlinkAllButLast(files, paths) ==
  files \ {paths[k] : k \in 1..(Len(paths) - 1)}

\* the finally block: existsSync and unlinkSync of each of chunkPaths
unlinkChunkFiles(files, paths) == files \ {paths[k] : k \in 1..Len(paths)}

\* synthesizeToFile(text, outputPath) up to the first await; files is the
\* content of the directory, which is empty of this call's files at first
SynthesizeToFile ==
  /\ tts.pc = "start"
  /\ LET chunks == splitTextIntoChunks(tts.text, MAX_CHARS_PER_CHUNK[tts.provider]) IN
     tts' = [pc |-> IF Len(chunks) = 1 THEN "single" ELSE "loop",
             provider |-> tts.provider, chunks |-> chunks, files |-> {},
             chunkPaths |-> <<>>, i |-> 0, inFlight |-> IF Len(chunks) = 1 THEN 1 ELSE 0,
             synthesized |-> IF Len(chunks) = 1
                               THEN <<[text |-> chunks[1], path |-> outputPath]>>
                               ELSE <<>>,
             concatContent |-> <<>>, outcome |-> "pending", failedIn |-> "",
             unlinked |-> {}]
  /\ UNCHANGED <<jobVars, srt, epi, nar, pv, llm>>

\* `return this.synthesizeChunkToFile(chunks[0], outputPath)` settles; a failed
\* synthesis may have created the file
SingleChunkDone ==
  /\ tts.pc = "single"
  /\ \E ok \in BOOLEAN, written \in BOOLEAN :
       /\ ok => written
       /\ tts' = [tts EXCEPT !.pc = "done", !.inFlight = 0,
                             !.files = IF written THEN @ \cup {outputPath} ELSE @,
                             !.outcome = IF ok THEN "returned" ELSE "threw",
                             !.failedIn = IF ok THEN "" ELSE "chunk"]
  /\ UNCHANGED <<jobVars, srt, epi, nar, pv, llm>>

\* one iteration of the loop up to `await this.synthesizeChunkToFile(...)`
BeginChunk ==
  /\ tts.pc = "loop" /\ tts.i < Len(tts.chunks)
  /\ tts' = [tts EXCEPT !.pc = "synthesizing", !.inFlight = @ + 1,
                        !.chunkPaths = Append(@, chunkPathOf(tts.provider, tts.i)),
                        !.synthesized = Append(@, [text |-> tts.chunks[tts.i + 1],
                                                   path |-> chunkPathOf(tts.provider, tts.i)])]
  /\ UNCHANGED <<jobVars, srt, epi, nar, pv, llm>>

\* the synthesis of the chunk settles: the loop goes on, or the error leaves
\* the try block; a failed synthesis may have created the file
ChunkDone ==
  /\ tts.pc = "synthesizing"
  /\ \E ok \in BOOLEAN, written \in BOOLEAN :
       /\ ok => written
       /\ tts' = [tts EXCEPT !.pc = IF ok THEN "loop" ELSE "finally", !.inFlight = @ - 1,
                             !.files = IF written THEN @ \cup {tts.chunkPaths[tts.i + 1]}
                                                  ELSE @,
                             !.i = IF ok THEN @ + 1 ELSE @,
                             !.outcome = IF ok THEN @ ELSE "threw",
                             !.failedIn = IF ok THEN @ ELSE "chunk"]
  /\ UNCHANGED <<jobVars, srt, epi, nar, pv, llm>>

\* concatenateAudioFiles up to the spawn of ffmpeg: the list file is written,
\* or writeFileSync throws
BeginConcat ==
  /\ tts.pc = "loop" /\ tts.i >= Len(tts.chunks)
  /\ \E wrote \in BOOLEAN :
       tts' = IF wrote
                THEN [tts EXCEPT !.pc = "ffmpeg",
                                 !.files = @ \cup {concatFilePath(tts.provider)},
                                 !.concatContent = tts.chunkPaths]
                ELSE [tts EXCEPT !.pc = "finally", !.outcome = "threw",
                                 !.failedIn = "concat"]
  /\ UNCHANGED <<jobVars, srt, epi, nar, pv, llm>>

\* proc.on('close'): the list file is removed, then the promise settles by the
\* exit code; ffmpeg may have written the output also when it fails
ConcatClose ==
  /\ tts.pc = "ffmpeg"
  /\ \E code \in {0, 1}, written \in BOOLEAN :
       /\ code = 0 => written
       /\ tts' = [tts EXCEPT !.pc = "finally",
                             !.files = (@ \ {concatFilePath(tts.provider)})
                                         \cup (IF written THEN {outputPath} ELSE {}),
                             !.outcome = IF code = 0 THEN "returned" ELSE "threw",
                             !.failedIn = IF code = 0 THEN "" ELSE "concat"]
  /\ UNCHANGED <<jobVars, srt, epi, nar, pv, llm>>

\* proc.on('error'): ffmpeg could not be started
ConcatError ==
  /\ tts.pc = "ffmpeg"
  /\ tts' = [tts EXCEPT !.pc = "finally",
                        !.files = @ \ {concatFilePath(tts.provider)},
                        !.outcome = "threw", !.failedIn = "concat"]
  /\ UNCHANGED <<jobVars, srt, epi, nar, pv, llm>>

\* the finally block, then the return or the throw
SynthesizeFinally ==
  /\ tts.pc = "finally"
  /\ tts' = [tts EXCEPT !.pc = "done",
                        !.files = unlinkChunkFiles(@, tts.chunkPaths),
                        !.unlinked = tts.files \ unlinkChunkFiles(tts.files, tts.chunkPaths)]
  /\ UNCHANGED <<jobVars, srt, epi, nar, pv, llm>>

(***************************************************************************)
(* processVideo and processClipsToVideo, ffmpeg call by ffmpeg call.  The  *)
(* store calls of processVideo are in ProcessVideo and ProcessVideoReturn. *)
(***************************************************************************)
\* `clip_${i.toString().padStart(4, '0')}.mp4` in workDir
clipPathOf(i) ==
  <<"c", "l", "i", "p", "_">> \o padStart(toString(i), 4, "0") \o <<".", "m", "p", "4">>

\* the concat list that both concatenations write next to the output file
concatListPath == <<"c", "o", "n", "c", "a", "t", "_", "l", "i", "s", "t", ".", "t", "x", "t">>

\* processVideo calls processClipsToVideo, which makes workDir if it is missing
PvStart(clips) ==
  [pc |-> "extract", clips |-> clips, workDir |-> TRUE, files |-> {},
   outputDir |-> {}, clipPaths |-> <<>>, i |-> 0, calls |-> <<>>,
   outcome |-> "pending", failedIn |-> ""]

\* pv with the result of the ffmpeg call in progress recorded
Settled(ok) ==
  [pv EXCEPT !.calls[Len(pv.calls)].ok = IF ok THEN "ok" ELSE "failed"]

\* one iteration of the extraction loop up to `await ffmpeg.extractClip(...)`
ExtractBegin ==
  /\ pv.pc = "extract" /\ pv.i < Len(pv.clips)
  /\ pv' = [pv EXCEPT !.pc = "extracting",
                      !.clipPaths = Append(@, clipPathOf(pv.i)),
                      !.calls = Append(@, [op |-> "extract",
                                           args |-> extractClip(pv.clips[pv.i + 1]),
                                           out |-> <<clipPathOf(pv.i)>>, ok |-> "pending"])]
  /\ UNCHANGED <<jobVars, srt, epi, nar, tts, llm>>

\* ffmpeg ends: the loop goes on, or the error leaves processClipsToVideo and
\* processVideo; a failed ffmpeg may have created the clip file
ExtractDone ==
  /\ pv.pc = "extracting"
  /\ \E ok \in BOOLEAN, written \in BOOLEAN :
       /\ ok => written
       /\ pv' = [Settled(ok) EXCEPT
                   !.pc = IF ok THEN "extract" ELSE "done",
                   !.files = IF written THEN @ \cup {pv.clipPaths[pv.i + 1]} ELSE @,
                   !.i = IF ok THEN @ + 1 ELSE @,
                   !.outcome = IF ok THEN @ ELSE "threw",
                   !.failedIn = IF ok THEN @ ELSE "extract"]
  /\ UNCHANGED <<jobVars, srt, epi, nar, tts, llm>>

\* concatenateClips up to `await this.runFFmpeg(args)`
ConcatBegin ==
  /\ pv.pc = "extract" /\ pv.i >= Len(pv.clips)
  /\ pv' = [pv EXCEPT !.pc = "concat",
                      !.outputDir = @ \cup {concatListPath},
                      !.calls = Append(@, [op |-> "concat", args |-> "copy",
                                           out |-> pv.clipPaths, ok |-> "pending"])]
  /\ UNCHANGED <<jobVars, srt, epi, nar, tts, llm>>

afterConcatAlwaysReencode(ok) == "reencode"

\* the try/catch around concatenateClips: where processClipsToVideo goes on
afterConcat(ok) == IF ok THEN "cleanup" ELSE "reencode"

\* the lossless ffmpeg ends and the list is removed; on failure the catch block
\* calls concatenateClipsWithReencode, up to its `await this.runFFmpeg(args)`
ConcatDone ==
  /\ pv.pc = "concat"
  /\ \E ok \in BOOLEAN :
       pv' = IF afterConcat(ok) = "cleanup"
               THEN [Settled(ok) EXCEPT !.pc = "cleanup",
                                        !.outputDir = @ \ {concatListPath}]
               ELSE [Settled(ok) EXCEPT
                       !.pc = "reencode",
                       !.calls = Append(@, [op |-> "reencode", args |-> "libx264",
                                            out |-> pv.clipPaths, ok |-> "pending"])]
  /\ UNCHANGED <<jobVars, srt, epi, nar, tts, llm>>

\* the re-encoding ffmpeg ends and the list is removed; its error leaves
\* processClipsToVideo and processVideo
ReencodeDone ==
  /\ pv.pc = "reencode"
  /\ \E ok \in BOOLEAN :
       pv' = [Settled(ok) EXCEPT !.pc = IF ok THEN "cleanup" ELSE "done",
                                 !.outputDir = @ \ {concatListPath},
                                 !.outcome = IF ok THEN @ ELSE "threw",
                                 !.failedIn = IF ok THEN @ ELSE "concat"]
  /\ UNCHANGED <<jobVars, srt, epi, nar, tts, llm>>

\* processClipsToVideo removes the clip files and returns; processVideo removes
\* workDir and returns outputPath
CleanUp ==
  /\ pv.pc = "cleanup"
  /\ pv' = [pv EXCEPT !.pc = "done", !.outcome = "returned",
                      !.files = {},   \* unlinkSync of each clip, then rmSync of workDir
                      !.workDir = FALSE]
  /\ UNCHANGED <<jobVars, srt, epi, nar, tts, llm>>

(***************************************************************************)
(* callWithRetry of the LLM providers, and the parse that follows it in    *)
(* selectKeyMoments and generateNarrativeForSummary.  The OpenAI and the   *)
(* Anthropic class have the same loop.                                     *)
(***************************************************************************)
\* what one call of the provider's client gives: content that is JSON, content
\* that is not, no content (the try block throws), or a rejected request
Responses == {"json", "text", "empty", "error"}

RECURSIVE pow2(_)
\* Math.pow(2, attempt)
pow2(n) == IF n = 0 THEN 1 ELSE 2 * pow2(n - 1)

backoffConstant(attempt) == 2000

\* the delay given to setTimeout after a failed attempt, in milliseconds
backoff(attempt) == pow2(attempt) * 1000

\* a provider method calls callWithRetry: `attempt = 1`
LlmStart(provider, method, maxRetries) ==
  [pc |-> "loop", provider |-> provider, method |-> method, maxRetries |-> maxRetries,
   attempt |-> 1, calls |-> <<>>, waits |-> <<>>, lastError |-> "undefined",
   outcome |-> "pending", error |-> ""]

\* the loop test passes and the request is sent
CallProvider ==
  /\ llm.pc = "loop" /\ llm.attempt <= llm.maxRetries
  /\ llm' = [llm EXCEPT !.pc = "calling", !.calls = Append(@, "pending")]
  /\ UNCHANGED <<jobVars, srt, epi, nar, tts, pv>>

\* the request settles.  Content is returned to the provider method, which
\* parses it and returns or throws; otherwise the catch block records the error
\* and, unless this was the last attempt, starts the backoff timer
ProviderResponds ==
  /\ llm.pc = "calling"
  /\ \E response \in Responses :
       LET answered == [llm EXCEPT !.calls[Len(llm.calls)] = response] IN
       llm' = IF response \in {"json", "text"}
                THEN [answered EXCEPT
                        !.pc = "done",
                        !.outcome = IF response = "json" THEN "returned" ELSE "threw",
                        !.error = IF response = "json" THEN "" ELSE "Failed to parse"]
              ELSE IF llm.attempt < llm.maxRetries
                THEN [answered EXCEPT !.pc = "backoff",
                                      !.lastError = <<llm.attempt, response>>,
                                      !.waits = Append(@, backoff(llm.attempt))]
              ELSE [answered EXCEPT !.pc = "loop", !.attempt = @ + 1,
                                    !.lastError = <<llm.attempt, response>>]
  /\ UNCHANGED <<jobVars, srt, epi, nar, tts, pv>>

\* the timer fires: `attempt++`
BackoffElapsed ==
  /\ llm.pc = "backoff"
  /\ llm' = [llm EXCEPT !.pc = "loop", !.attempt = @ + 1]
  /\ UNCHANGED <<jobVars, srt, epi, nar, tts, pv>>

\* the loop test fails: `throw lastError ?? new Error('... failed after retries')`
GiveUp ==
  /\ llm.pc = "loop" /\ llm.attempt > llm.maxRetries
  /\ llm' = [llm EXCEPT !.pc = "done", !.outcome = "threw",
                        !.error = IF llm.lastError = "undefined"
                                    THEN "call failed after retries" ELSE llm.lastError]
  /\ UNCHANGED <<jobVars, srt, epi, nar, tts, pv>>

(***************************************************************************)
(* Specifications                                                          *)
(***************************************************************************)
Configs == [mode : {"A", "B"}, videoDirectory : BOOLEAN]

\* no library function is being called on its own
SrtIdle == [pc |-> "idle"]

EpiIdle == [pc |-> "idle"]

NarIdle == [pc |-> "idle"]

TtsIdle == [pc |-> "idle"]

PvIdle == [pc |-> "idle"]

LlmIdle == [pc |-> "idle"]

FnIdle ==
  srt = SrtIdle /\ epi = EpiIdle /\ nar = NarIdle /\ tts = TtsIdle /\ pv = PvIdle /\ llm = LlmIdle

\* one job has been created; the current pipeline is deployed
Init ==
  /\ version = 2
  /\ cfg \in Configs
  /\ disk = create
  /\ run = [r \in Runs |-> IdleRun]
  /\ launched = 0
  /\ lastResp = ""
  /\ pj = NoProbe
  /\ pres = -1
  /\ rm = RmIdle
  /\ FnIdle

StagesCommon(r) ==
  \/ RunBegin(r) \/ ValidateInputs(r) \/ VerifyFiles(r)
  \/ ParseSubtitles(r) \/ ParseFile(r) \/ ParseSubtitlesDone(r)
  \/ AnalyzeWithLLM(r) \/ SelectKeyMomentsReturn(r) \/ GenerateNarrativeReturn(r)
  \/ GenerateClipSpecs(r) \/ SaveClipsJsonPath(r) \/ GenerateClipSpecsDone(r)
  \/ ProcessVideo(r) \/ ProcessVideoReturn(r) \/ GenerateSrt(r)
  \/ GenerateTTS(r) \/ GenerateTTSReturn(r)
  \/ MixAudio(r) \/ RemoveAudioReturn(r) \/ MixAudioReturn(r)
  \/ GenerateNarrativeSrt(r) \/ Catch(r)

Requests == StartJob \/ UploadFiles \/ DeleteJob \/ GetJob

Next ==
  \/ \E r \in Runs :
       StagesCommon(r) \/ ScanLocalVideoDirectory(r) \/ SaveOutputs(r) \/ Complete(r)
  \/ Requests

Spec == Init /\ [][Next]_vars

\* the earlier SummaryPipeline: no videoDirectory, no pipeline log lines
InitEarlier ==
  /\ version = 1
  /\ cfg \in {c \in Configs : ~c.videoDirectory}
  /\ disk = create
  /\ run = [r \in Runs |-> IdleRun]
  /\ launched = 0
  /\ lastResp = ""
  /\ pj = NoProbe
  /\ pres = -1
  /\ rm = RmIdle
  /\ FnIdle

NextEarlier ==
  \/ \E r \in Runs : StagesCommon(r) \/ CompleteEarlier(r) \/ SaveOutputsEarlier(r)
  \/ Requests

SpecEarlier == InitEarlier /\ [][NextEarlier]_vars

\* calculateOverallProgress on every job a pipeline of that mode can store
InitProgress ==
  /\ version = 2
  /\ cfg \in {c \in Configs : ~c.videoDirectory}
  /\ \E s \in JobStatus, p \in 0..100 :
       /\ s = "failed" \/ indexOf(relevantStages(cfg.mode), s, 1) # -1
       /\ disk = [create EXCEPT !.status = s, !.stage = s, !.stageProgress = p]
  /\ run = [r \in Runs |-> IdleRun]
  /\ launched = 0
  /\ lastResp = ""
  /\ pj = NoProbe
  /\ pres = -1
  /\ rm = RmIdle
  /\ FnIdle

NextProgress == GetJob

SpecProgress == InitProgress /\ [][NextProgress]_vars

\* remapSubtitlesToClips on every clip list and every pair of subtitle lists
InitRemap ==
  /\ version = 2
  /\ cfg = [mode |-> "A", videoDirectory |-> FALSE]
  /\ disk = create
  /\ run = [r \in Runs |-> IdleRun]
  /\ launched = 0
  /\ lastResp = ""
  /\ pj = NoProbe
  /\ pres = -1
  /\ FnIdle
  /\ \E clips \in SeqsUpTo(ClipDefinitions, MaxClips),
        first \in SeqsUpTo(TimeRanges, MaxSubs),
        second \in SeqsUpTo(TimeRanges, MaxSubsSecond),
        hasSecond \in BOOLEAN :
       /\ hasSecond \/ second = <<>>
       /\ rm = RmStart(clips,
                       IF hasSecond
                         THEN [e \in Episodes |->
                                 IF e = "S01E01" THEN EntriesOf(e, first)
                                                 ELSE EntriesOf(e, second)]
                         ELSE [e \in {"S01E01"} |-> EntriesOf(e, first)])

NextRemap == RemapClip \/ RemapReturn \/ TotalDuration

SpecRemap == InitRemap /\ [][NextRemap]_vars

\* the SRT functions are called on an entry list, on a file, or on a time
InitSrt ==
  /\ version = 2
  /\ cfg = [mode |-> "A", videoDirectory |-> FALSE]
  /\ disk = create
  /\ run = [r \in Runs |-> IdleRun]
  /\ launched = 0
  /\ lastResp = ""
  /\ pj = NoProbe
  /\ pres = -1
  /\ rm = RmIdle
  /\ epi = EpiIdle /\ nar = NarIdle /\ tts = TtsIdle /\ pv = PvIdle /\ llm = LlmIdle
  /\ \/ \E entries \in SeqsUpTo(SrtEntries, MaxEntries) :
          srt = [SrtCall("entries", "generate") EXCEPT !.entries = entries]
     \/ \E blocks \in SeqsUpTo(SrtBlocks, MaxBlocks), gap \in {2, 3}, crlf \in BOOLEAN :
          srt = [SrtCall("content", "parse") EXCEPT
                   !.blocks = blocks, !.content = fileOfBlocks(blocks, gap, crlf)]
     \/ \E seconds \in TimeInputs :
          srt = [SrtCall("time", "format") EXCEPT !.seconds = seconds]

NextSrt == Generate \/ Parse \/ Regenerate \/ FormatTime \/ ReadTime

SpecSrt == InitSrt /\ [][NextSrt]_vars

\* extractEpisodeIdFromFilename is called on a file name with up to MaxMarkers markers
InitEpisodeId ==
  /\ version = 2
  /\ cfg = [mode |-> "A", videoDirectory |-> FALSE]
  /\ disk = create
  /\ run = [r \in Runs |-> IdleRun]
  /\ launched = 0
  /\ lastResp = ""
  /\ pj = NoProbe
  /\ pres = -1
  /\ rm = RmIdle
  /\ srt = SrtIdle /\ nar = NarIdle /\ tts = TtsIdle /\ pv = PvIdle /\ llm = LlmIdle
  /\ \E prefix \in {<<>>, <<"S", "h", "o", "w", ".">>},
        markers \in SeqsUpTo(EpisodeMarkers, MaxMarkers),
        extension \in {<<".", "m", "k", "v">>, <<".", "7", "2", "0", "p", ".", "s", "r", "t">>} :
       epi = [pc |-> "call", markers |-> markers,
              filename |-> fileName(prefix, markers, extension),
              result |-> NoEpisodeId]

NextEpisodeId == ExtractEpisodeId

SpecEpisodeId == InitEpisodeId /\ [][NextEpisodeId]_vars

\* generateNarrativeSubtitles is called on up to MaxNarrativeBlocks blocks
InitNarrative ==
  /\ version = 2
  /\ cfg = [mode |-> "B", videoDirectory |-> FALSE]
  /\ disk = create
  /\ run = [r \in Runs |-> IdleRun]
  /\ launched = 0
  /\ lastResp = ""
  /\ pj = NoProbe
  /\ pres = -1
  /\ rm = RmIdle
  /\ srt = SrtIdle /\ epi = EpiIdle /\ tts = TtsIdle /\ pv = PvIdle /\ llm = LlmIdle
  /\ \E blocks \in SeqsUpTo(NarrativeBlocks, MaxNarrativeBlocks), startOffset \in {0, 5} :
       nar = NarStart(blocks, startOffset)

NextNarrative == NarrateBlock \/ NarrateReturn

SpecNarrative == InitNarrative /\ [][NextNarrative]_vars

\* splitTextIntoChunks is called on a text, by either synthesizer
InitChunks ==
  /\ version = 2
  /\ cfg = [mode |-> "B", videoDirectory |-> FALSE]
  /\ disk = create
  /\ run = [r \in Runs |-> IdleRun]
  /\ launched = 0
  /\ lastResp = ""
  /\ pj = NoProbe
  /\ pres = -1
  /\ rm = RmIdle
  /\ srt = SrtIdle /\ epi = EpiIdle /\ nar = NarIdle /\ pv = PvIdle /\ llm = LlmIdle
  /\ \E provider \in Providers : \E text \in SpokenTexts(MAX_CHARS_PER_CHUNK[provider]) :
       tts = [pc |-> "split", provider |-> provider, text |-> text]

NextChunks == SplitText

SpecChunks == InitChunks /\ [][NextChunks]_vars

\* synthesizeToFile is called on a text, by either synthesizer
InitSynthesize ==
  /\ version = 2
  /\ cfg = [mode |-> "B", videoDirectory |-> FALSE]
  /\ disk = create
  /\ run = [r \in Runs |-> IdleRun]
  /\ launched = 0
  /\ lastResp = ""
  /\ pj = NoProbe
  /\ pres = -1
  /\ rm = RmIdle
  /\ srt = SrtIdle /\ epi = EpiIdle /\ nar = NarIdle /\ pv = PvIdle /\ llm = LlmIdle
  /\ \E provider \in Providers : \E text \in SpokenTexts(MAX_CHARS_PER_CHUNK[provider]) :
       tts = [pc |-> "start", provider |-> provider, text |-> text]

NextSynthesize ==
  \/ SynthesizeToFile \/ SingleChunkDone \/ BeginChunk \/ ChunkDone
  \/ BeginConcat \/ ConcatClose \/ ConcatError \/ SynthesizeFinally

SpecSynthesize == InitSynthesize /\ [][NextSynthesize]_vars

\* processVideo is called on the clips of up to MaxVideoClips key moments
InitProcessVideo ==
  /\ version = 2
  /\ cfg = [mode |-> "B", videoDirectory |-> FALSE]
  /\ disk = create
  /\ run = [r \in Runs |-> IdleRun]
  /\ launched = 0
  /\ lastResp = ""
  /\ pj = NoProbe
  /\ pres = -1
  /\ rm = RmIdle
  /\ srt = SrtIdle /\ epi = EpiIdle /\ nar = NarIdle /\ tts = TtsIdle /\ llm = LlmIdle
  /\ \E moments \in SeqsUpTo(KeyMoments, MaxVideoClips) :
       pv = PvStart(videoClipsOf(clipsOfMoments(moments, Episodes)))

NextProcessVideo ==
  \/ ExtractBegin \/ ExtractDone \/ ConcatBegin \/ ConcatDone \/ ReencodeDone \/ CleanUp

SpecProcessVideo == InitProcessVideo /\ [][NextProcessVideo]_vars

\* a provider method calls callWithRetry, with maxRetries from the configuration
InitRetry ==
  /\ version = 2
  /\ cfg = [mode |-> "B", videoDirectory |-> FALSE]
  /\ disk = create
  /\ run = [r \in Runs |-> IdleRun]
  /\ launched = 0
  /\ lastResp = ""
  /\ pj = NoProbe
  /\ pres = -1
  /\ rm = RmIdle
  /\ srt = SrtIdle /\ epi = EpiIdle /\ nar = NarIdle /\ tts = TtsIdle /\ pv = PvIdle
  /\ \E provider \in {"openai", "anthropic"},
        method \in {"selectKeyMoments", "generateNarrativeForSummary"},
        maxRetries \in 0..MaxLlmRetries :
       llm = LlmStart(provider, method, maxRetries)

NextRetry == CallProvider \/ ProviderResponds \/ BackoffElapsed \/ GiveUp

SpecRetry == InitRetry /\ [][NextRetry]_vars

\* remapSubtitlesToClips is called on clips that carry their `order`, as
\* generateSrt builds them: the orders are 1..n, in array order or reversed
InitRemapOrder ==
  /\ version = 2
  /\ cfg = [mode |-> "A", videoDirectory |-> FALSE]
  /\ disk = create
  /\ run = [r \in Runs |-> IdleRun]
  /\ launched = 0
  /\ lastResp = ""
  /\ pj = NoProbe
  /\ pres = -1
  /\ FnIdle
  /\ \E clips \in SeqsUpTo(ClipDefinitions, MaxClips),
        first \in SeqsUpTo(TimeRanges, MaxSubsSecond),
        second \in SeqsUpTo(TimeRanges, MaxSubsSecond),
        reversed \in BOOLEAN :
       rm = RmStart([i \in 1..Len(clips) |->
                       [episodeId |-> clips[i].episodeId,
                        videoPath |-> videoPathOf(clips[i].episodeId),
                        startTime |-> clips[i].startTime,
                        endTime |-> clips[i].endTime,
                        order |-> IF reversed THEN Len(clips) + 1 - i ELSE i]],
                    [e \in Episodes |->
                       IF e = "S01E01" THEN EntriesOf(e, first) ELSE EntriesOf(e, second)])

SpecRemapOrder == InitRemapOrder /\ [][NextRemap]_vars

(***************************************************************************)
(* Properties                                                              *)
(***************************************************************************)
Rank(status) == indexOf(Stages, status, 1)

NoDuplicates(seq) == \A i, j \in 1..Len(seq) : i # j => seq[i] # seq[j]

Front(seq) == IF seq = <<>> THEN <<>> ELSE SubSeq(seq, 1, Len(seq) - 1)

Contains(seq, x) == \E i \in 1..Len(seq) : seq[i] = x

Started(r) == run[r].pc # "idle"

Finished(r) == run[r].pc \in {"done", "rejected"}

\* a legal move of the persisted status: stay, go forward along the chain, or
\* jump to failed from a non-terminal status
ForwardMove(a, b) ==
  \/ a = b
  \/ b = "failed" /\ a \notin {"completed", "failed"}
  \/ a # "failed" /\ b # "failed" /\ Rank(b) > Rank(a)

\* C1: while a run is in flight, every write moves the persisted status forward
\* along the stage chain or to failed; it never returns to an earlier status.
C1_StatusOnlyMovesForward ==
  [][(launched >= 1 /\ disk.exists /\ disk'.exists)
       => ForwardMove(disk.status, disk'.status)]_vars

\* C2: while a run is in flight and has not failed, the persisted completedStages
\* is the list of the stages the run has left, in order and without duplicates;
\* at completed it is validating .. generating_srt (then generating_tts,
\* mixing_audio when they were executed).
C2_CompletedStagesAreStagesLeft ==
  \A r \in Runs :
    (Started(r) /\ disk.exists /\ disk.status # "failed")
      => /\ disk.completedStages = Front(run[r].entered)
         /\ NoDuplicates(disk.completedStages)
         /\ disk.status = "completed" =>
              disk.completedStages =
                SelectSeq(SubSeq(Stages, 2, 9),
                          LAMBDA s : IsTtsStage(s) => Contains(run[r].entered, s))

\* C3: when a stage has thrown and the record still exists once run() has
\* rejected, the record is failed with the thrown message as error (also the last
\* of progress.errors), run() rejected with that message, and no stage was
\* entered after the one that threw nor entered twice.
C3_FailureIsRecordedAndRethrown ==
  \A r \in Runs :
    /\ run[r].pc \in {"catch", "rejected"} =>
         /\ CurrentStage(run[r].entered) = run[r].thrownIn
         /\ NoDuplicates(run[r].entered)
    /\ (run[r].pc = "rejected" /\ disk.exists) =>
         /\ disk.status = "failed"
         /\ disk.error = run[r].err
         /\ disk.errors # <<>> /\ disk.errors[Len(disk.errors)] = run[r].err
         /\ run[r].result = run[r].err

C3_Witness ==
  \E r \in Runs :
    /\ run[r].pc = "rejected" /\ disk.exists
    /\ run[r].thrownIn = "processing_video" /\ run[r].err = "FFmpeg failed"
    /\ disk.status = "failed"

NarrationOps ==
  {"generateNarrativeForSummary", "synthesizeToFile", "removeAudio",
   "mixAudioWithVideo", "generateNarrativeSrt"}

\* C4: a mode-A run never enters generating_tts or mixing_audio and enters
\* completed right after generating_srt; a mode-B run that completes has run
\* narration generation, speech synthesis, audio removal and muxing and
\* narration-subtitle generation in that order; generating_tts and mixing_audio
\* are entered only with a non-empty narrative.
C4_ModeBranching ==
  \A r \in Runs :
    LET e == run[r].entered IN
    /\ cfg.mode = "A" =>
         /\ ~Contains(e, "generating_tts") /\ ~Contains(e, "mixing_audio")
         /\ ~(disk.exists /\ IsTtsStage(disk.status))
         /\ (Len(e) >= 2 /\ e[Len(e)] = "completed")
              => e[Len(e) - 1] = "generating_srt"
    /\ (Contains(e, "generating_tts") \/ Contains(e, "mixing_audio"))
         => cfg.mode = "B" /\ run[r].narrative = "text"
    /\ (cfg.mode = "B" /\ Contains(e, "completed")) =>
         /\ SelectSeq(run[r].trace, LAMBDA o : o \in NarrationOps) =
              <<"generateNarrativeForSummary", "synthesizeToFile", "removeAudio",
                "mixAudioWithVideo", "generateNarrativeSrt">>
         /\ SubSeq(e, Len(e) - 3, Len(e)) =
              <<"generating_srt", "generating_tts", "mixing_audio", "completed">>

C4_Witness ==
  \E r \in Runs :
    /\ cfg.mode = "B" /\ run[r].pc = "done" /\ run[r].narrative = "text"
    /\ disk.exists /\ disk.status = "completed"
    /\ Contains(run[r].entered, "mixing_audio")

\* C5: SummaryPipeline.run is launched at most once for the job, whatever start
\* requests arrive while it runs or after it has finished.
C5_RunLaunchedAtMostOnce == launched <= 1

C5_Witness ==
  /\ launched = 1
  /\ lastResp = "400 Job has already been started"
  /\ run[1].pc \in YieldPcs

\* the inputs of run r do not pass validation
InputsInvalid(r) ==
  \/ run[r].mem.srtFiles = 0
  \/ run[r].mem.videoFiles = 0 /\ ~cfg.videoDirectory
  \/ run[r].invalid \in {"file", "directory"}

\* C6: when the inputs do not pass validation, the run never enters parsing or a
\* later stage, parses nothing and makes no LLM or media-tool call, and ends with
\* the record failed.
C6_InvalidInputsStopAtValidating ==
  \A r \in Runs :
    (Started(r) /\ InputsInvalid(r)) =>
      /\ \A i \in 1..Len(run[r].entered) : run[r].entered[i] = "validating"
      /\ run[r].trace = <<>>
      /\ disk.exists => Rank(disk.status) \in {-1, 0, 1}
      /\ run[r].pc # "done"
      /\ (run[r].pc = "rejected" /\ disk.exists) => disk.status = "failed"

C6_Witness ==
  \E r \in Runs :
    /\ run[r].pc = "rejected" /\ run[r].mem.srtFiles = 0 /\ run[r].mem.videoFiles > 0
    /\ run[r].thrownIn = "validating"
    /\ disk.exists /\ disk.status = "failed"

\* C7: once every launched run has finished and the record exists, its status is
\* completed or failed, never pending or an intermediate stage.
C7_FinishedRunLeavesTerminalStatus ==
  (launched >= 1 /\ (\A r \in Runs : Started(r) => Finished(r)) /\ disk.exists)
    => disk.status \in {"completed", "failed"}

\* the position of a status in the stage list of a mode, pending = 0
StagePosition ==
  [mode \in {"A", "B"} |->
     IF mode = "A"
       THEN [s \in {"pending", "validating", "parsing", "analyzing",
                    "generating_clips", "processing_video", "generating_srt"} |->
               CASE s = "pending" -> 0 [] s = "validating" -> 1 [] s = "parsing" -> 2
                 [] s = "analyzing" -> 3 [] s = "generating_clips" -> 4
                 [] s = "processing_video" -> 5 [] s = "generating_srt" -> 6]
       ELSE [s \in {"pending", "validating", "parsing", "analyzing",
                    "generating_clips", "processing_video", "generating_srt",
                    "generating_tts", "mixing_audio"} |->
               CASE s = "pending" -> 0 [] s = "validating" -> 1 [] s = "parsing" -> 2
                 [] s = "analyzing" -> 3 [] s = "generating_clips" -> 4
                 [] s = "processing_video" -> 5 [] s = "generating_srt" -> 6
                 [] s = "generating_tts" -> 7 [] s = "mixing_audio" -> 8]]

Segments == [mode \in {"A", "B"} |-> IF mode = "A" THEN 7 ELSE 9]

\* C8: the overall progress is 100 exactly for a completed job; for a
\* non-terminal status at position i with stage progress p it is
\* min(99, round((i * 100 + p) / N)), N = 7 for mode A and 9 for mode B.
C8_OverallProgress ==
  pres # -1 =>
    /\ pres = 100 <=> pj.status = "completed"
    /\ pj.status \in DOMAIN StagePosition[pj.mode] =>
         LET x == StagePosition[pj.mode][pj.status] * 100 + pj.stageProgress
             n == Segments[pj.mode]
             rounded == CHOOSE v \in 0..200 : 2 * n * v <= 2 * x + n /\ 2 * x + n < 2 * n * (v + 1)
         IN pres = (IF rounded > 99 THEN 99 ELSE rounded)

C8_Witness ==
  /\ pres = 99
  /\ pj = [mode |-> "A", status |-> "generating_srt", stageProgress |-> 100]

RECURSIVE SumOfDurations(_, _)
\* the sum of (endTime - startTime) over the first n clips
SumOfDurations(clips, n) ==
  IF n = 0 THEN 0
  ELSE SumOfDurations(clips, n - 1) + (clips[n].endTime - clips[n].startTime)

\* the (clip, entry) position pairs that the containment rule selects
SelectedPairs ==
  {p \in (1..Len(rm.clips)) \X (1..(MaxSubs + MaxSubsSecond)) :
     LET clip == rm.clips[p[1]]
         entries == IF clip.episodeId \in DOMAIN rm.subs
                      THEN rm.subs[clip.episodeId] ELSE <<>>
     IN /\ p[2] <= Len(entries)
        /\ entries[p[2]].startTime >= clip.startTime
        /\ entries[p[2]].endTime <= clip.endTime}

PairBefore(p, q) == p[1] < q[1] \/ (p[1] = q[1] /\ p[2] < q[2])

\* the k-th selected pair, clip by clip and in stored order within a clip
SelectedPair(k) ==
  CHOOSE p \in SelectedPairs :
    Cardinality({q \in SelectedPairs : PairBefore(q, p)}) = k - 1

\* C9: the remapper emits exactly the entries contained in their clip, clip by
\* clip and in stored order; the k-th has index k and its times are shifted by
\* the summed durations of the earlier clips minus the clip's start.
C9_RemapEmitsContainedEntriesShifted ==
  RemapDone =>
    /\ Len(rm.remapped) = Cardinality(SelectedPairs)
    /\ \A k \in 1..Len(rm.remapped) :
         LET p == SelectedPair(k)
             clip == rm.clips[p[1]]
             entry == rm.subs[clip.episodeId][p[2]]
             O == SumOfDurations(rm.clips, p[1] - 1)
             out == rm.remapped[k]
         IN /\ out.index = k
            /\ out.startTime = O + (entry.startTime - clip.startTime)
            /\ out.endTime = O + (entry.endTime - clip.startTime)
            /\ out.text = entry.text
            /\ out.originalEpisodeId = clip.episodeId

\* two clips: the first is of an episode without subtitles and still shifts the
\* second, whose episode has one entry inside the clip and one across its end
C9_Witness ==
  /\ RemapDone /\ Len(rm.clips) = 2
  /\ rm.clips[1].episodeId \notin DOMAIN rm.subs
  /\ rm.offsets[2] > 0
  /\ Len(rm.remapped) = 1 /\ rm.remapped[1].startTime >= rm.offsets[2]
  /\ \E i \in 1..Len(rm.subs[rm.clips[2].episodeId]) :
       LET e == rm.subs[rm.clips[2].episodeId][i] IN
       e.startTime >= rm.clips[2].startTime /\ e.startTime < rm.clips[2].endTime
         /\ e.endTime > rm.clips[2].endTime

\* C10: the remapped entries have non-decreasing startTime, and each lies inside
\* the slot of its clip: offset <= startTime and endTime <= offset + duration.
C10_RemapMonotoneWithinSlots ==
  /\ \A k \in 1..(Len(rm.remapped) - 1) :
       rm.remapped[k].startTime <= rm.remapped[k + 1].startTime
  /\ \A k \in 1..Len(rm.remapped) :
       LET c == rm.owner[k] IN
       /\ rm.offsets[c] <= rm.remapped[k].startTime
       /\ rm.remapped[k].endTime
            <= rm.offsets[c] + (rm.clips[c].endTime - rm.clips[c].startTime)

\* C11: calculateTotalDuration(clips) is the sum of the clip durations, 0 for no
\* clips, and equals the offset the remapper has accumulated after its last clip.
C11_DurationConservation ==
  /\ rm.total # -1 =>
       /\ rm.total = SumOfDurations(rm.clips, Len(rm.clips))
       /\ (rm.clips = <<>> => rm.total = 0)
  /\ (RemapDone /\ rm.total # -1) => rm.currentOffset = rm.total

\* two clips of durations 1 and 2 (the test's 10 and 15, scaled): total 3
C11_Witness ==
  /\ RemapDone /\ rm.total = 3 /\ rm.currentOffset = 3
  /\ Len(rm.clips) = 2
  /\ rm.clips[1].startTime = 1 /\ rm.clips[1].endTime = 2
  /\ rm.clips[2].startTime = 0 /\ rm.clips[2].endTime = 2

RECURSIVE SumOfExtracted(_, _)
\* the total of the durations (-t) of the first n extractions requested from ffmpeg
SumOfExtracted(extracted, n) ==
  IF n = 0 THEN 0 ELSE SumOfExtracted(extracted, n - 1) + extracted[n].t

\* the offset at which remapSubtitlesToClips places clip i of `clips`
OffsetOfClip(clips, i) == reduceDuration(SubSeq(clips, 1, i - 1), 1, 0)

\* run r has handed its clips to the remapper and has not returned yet
Remapped(r) ==
  Contains(run[r].trace, "generateSrt") /\ run[r].pc \notin {"done", "rejected"}

\* C12: in one run, the ranges handed to video extraction and concatenation and
\* the clips handed to the remapper are the same sequence, so the remapper's
\* offset of clip i is the duration extracted before clip i and the totals agree.
C12_VideoAndSubtitlesUseSameClips ==
  \A r \in Runs : Remapped(r) =>
    LET ex == run[r].extracted
        cd == run[r].clipDefinitions
    IN /\ Len(ex) = Len(cd)
       /\ run[r].concatenated = [i \in 1..Len(cd) |-> i]
       /\ \A i \in 1..Len(cd) :
            /\ ex[i].videoPath = cd[i].videoPath
            /\ ex[i].ss = cd[i].startTime
            /\ ex[i].ss + ex[i].t = cd[i].endTime
            /\ OffsetOfClip(cd, i) = SumOfExtracted(ex, i - 1)
       /\ calculateTotalDuration(cd) = SumOfExtracted(ex, Len(ex))

\* two clips of different episodes and durations; the second is placed at 2
C12_Witness ==
  \E r \in Runs :
    /\ Remapped(r) /\ run[r].pc = "outputs"
    /\ Len(run[r].clipDefinitions) = 2
    /\ run[r].clipDefinitions[1].episodeId = "S01E02"
    /\ run[r].clipDefinitions[2].episodeId = "S01E01"
    /\ OffsetOfClip(run[r].clipDefinitions, 2) = 2
    /\ SumOfExtracted(run[r].extracted, 2) = 3

\* the number of lines of a text
LineCount(text) == Cardinality({i \in 1..Len(text) : text[i] = "\n"}) + 1

RECURSIVE FirstLineOfBlock(_, _)
\* the line of the generated file at which the block of entry k begins: every
\* earlier block has a number line, a time line, its text and a separating line
FirstLineOfBlock(entries, k) ==
  IF k = 1 THEN 1
  ELSE FirstLineOfBlock(entries, k - 1) + 3 + LineCount(entries[k - 1].text)

\* C13: generateSrtContent writes the entries in input order, numbered 1, 2, ...
\* by position, whatever index an entry carries.
C13_GenerateNumbersByPosition ==
  (srt.pc # "idle" /\ srt.kind = "entries" /\ srt.pc # "generate") =>
    LET entries == srt.entries
        lines == split(srt.content, "\n")
    IN /\ entries = <<>> => srt.content = <<>>
       /\ entries # <<>> =>
            Len(lines) = FirstLineOfBlock(entries, Len(entries)) + 1
                           + LineCount(entries[Len(entries)].text)
       /\ \A k \in 1..Len(entries) :
            LET at == FirstLineOfBlock(entries, k) IN
            /\ lines[at] = <<DigitChars[k + 1]>>
            /\ lines[at + 1] = secondsToSrtTime(entries[k].startTime)
                                 \o <<" ", "-", "-", ">", " ">>
                                 \o secondsToSrtTime(entries[k].endTime)
            /\ SubSeq(lines, at + 2, at + 1 + LineCount(entries[k].text))
                 = split(entries[k].text, "\n")

\* entries with index 5 and 10 are written as 1 and 2 (lines 1 and 5)
C13_Witness ==
  /\ srt.pc = "parse" /\ srt.kind = "entries" /\ Len(srt.entries) = 2
  /\ srt.entries[1].index = 5 /\ srt.entries[2].index = 10
  /\ srt.entries[1].text = <<"H", "i">>
  /\ split(srt.content, "\n")[1] = <<"1">>
  /\ split(srt.content, "\n")[5] = <<"2">>

\* a time of whole milliseconds
WholeMilliseconds(t) == t % TicksPerMs = 0

\* non-empty text without blank lines
TextWithoutBlankLines(text) ==
  /\ text # <<>>
  /\ \A line \in {split(text, "\n")[i] : i \in 1..LineCount(text)} : line # <<>>

\* the content the claim calls valid
ValidContent(entries) ==
  \A k \in 1..Len(entries) :
    /\ TextWithoutBlankLines(entries[k].text)
    /\ WholeMilliseconds(entries[k].startTime)
    /\ WholeMilliseconds(entries[k].endTime)

\* C14: generate(parse(generate(entries))) is identical to generate(entries) for
\* every entry list with non-empty text without blank lines and times of whole
\* milliseconds: no entry is lost, reordered or changed.
C14_IdempotentReindexing ==
  (srt.pc = "done" /\ srt.kind = "entries" /\ ValidContent(srt.entries)) =>
    /\ srt.again = srt.content
    /\ Len(srt.parsed.entries) = Len(srt.entries)
    /\ \A k \in 1..Len(srt.entries) :
         /\ srt.parsed.entries[k].startTime = srt.entries[k].startTime
         /\ srt.parsed.entries[k].endTime = srt.entries[k].endTime
         /\ srt.parsed.entries[k].text = srt.entries[k].text

\* C15: secondsToSrtTime(seconds) is HH:MM:SS,mmm, zero-padded, with exactly three
\* millisecond digits (rounded to nearest, carrying into the seconds), and
\* srtTimeToSeconds of it is within 1 ms of seconds.
C15_TimestampRoundTrip ==
  /\ (srt.pc # "idle" /\ srt.kind = "time" /\ srt.pc # "format") =>
       /\ Len(srt.formatted) = 12
       /\ \A i \in {1, 2, 4, 5, 7, 8, 10, 11, 12} :
            i <= Len(srt.formatted) => IsDigit(srt.formatted[i])
       /\ srt.formatted[3] = ":" /\ srt.formatted[6] = ":" /\ srt.formatted[9] = ","
  /\ (srt.pc = "done" /\ srt.kind = "time") =>
       /\ srt.back.kind = "number"
       /\ srt.back.ticks - srt.seconds <= TicksPerMs
       /\ srt.seconds - srt.back.ticks <= TicksPerMs

\* C16: parseSrtContent never throws; a block with fewer than 3 non-blank lines,
\* a non-numeric index line or no valid time line is dropped, and every
\* well-formed block of the file is returned, in file order, with its own index,
\* times and text.
C16_MalformedBlocksAreSkipped ==
  /\ srt.pc # "idle" => ~srt.parsed.thrown
  /\ (srt.pc = "done" /\ srt.kind = "content") =>
       srt.parsed.entries = flatten([i \in 1..Len(srt.blocks) |-> srt.blocks[i].entries])

\* well-formed, malformed, well-formed: both entries come back
C16_Witness ==
  /\ srt.pc = "done" /\ srt.kind = "content" /\ Len(srt.blocks) = 3
  /\ srt.blocks[1].entries # <<>>
  /\ srt.blocks[2].entries = <<>> /\ LineCount(srt.blocks[2].text) = 3
  /\ srt.blocks[3].entries # <<>>
  /\ Len(srt.parsed.entries) = 2
  /\ srt.parsed.entries[1].index = 1 /\ srt.parsed.entries[2].index = 7

\* the first marker of a file name that is written in pattern p, 0: none
FirstMarker(markers, p) ==
  LET at == {i \in 1..Len(markers) : markers[i].pattern = p} IN
  IF at = {} THEN 0 ELSE leftmost(at)

\* the id the priority list gives a file name with these markers
ResolvedId(markers) ==
  IF FirstMarker(markers, 1) # 0 THEN markers[FirstMarker(markers, 1)].id
  ELSE IF FirstMarker(markers, 2) # 0 THEN markers[FirstMarker(markers, 2)].id
  ELSE IF FirstMarker(markers, 3) # 0 THEN markers[FirstMarker(markers, 3)].id
  ELSE NoEpisodeId

\* C17: the episode id of a file name is that of its S#E# marker, otherwise of
\* its #x# marker, otherwise season 01 with the episode of its E# or Episode #
\* marker, otherwise null; letters match in either case, and season and episode
\* are zero-padded to two digits.
C17_EpisodeIdFirstMatchWins ==
  epi.pc = "done" => epi.result = ResolvedId(epi.markers)

RECURSIVE SumOfBlockDurations(_, _)
\* the total duration of the first n narrative blocks, in seconds
SumOfBlockDurations(blocks, n) ==
  IF n = 0 THEN 0 ELSE SumOfBlockDurations(blocks, n - 1) + blocks[n].durationSeconds

\* x - y = z for fractions
Spans(x, y, z) == plus(y, z) = x

\* C18: the narrative subtitles tile the timeline: the first starts at
\* startOffset, each later one starts where the previous one ends, the entries
\* of a block cover its durationSeconds, indexes run 1..n, and the last entry
\* ends at startOffset plus the sum of the block durations.
C18_NarrativeSubtitlesTile ==
  (nar.pc = "done") =>
    LET e == nar.entries
        first(b) == leftmost({k \in 1..Len(e) : nar.owner[k] = b})
        last(b) == CHOOSE k \in 1..Len(e) :
                     nar.owner[k] = b /\ \A j \in 1..Len(e) : nar.owner[j] = b => j <= k
    IN /\ e # <<>> => e[1].startTime = fraction(nar.startOffset, 1)
       /\ \A k \in 1..(Len(e) - 1) : e[k + 1].startTime = e[k].endTime
       /\ \A k \in 1..Len(e) : e[k].index = k
       /\ \A b \in 1..Len(nar.blocks) :
            /\ \E k \in 1..Len(e) : nar.owner[k] = b
            /\ Spans(e[last(b)].endTime, e[first(b)].startTime,
                     fraction(nar.blocks[b].durationSeconds, 1))
       /\ e # <<>> =>
            e[Len(e)].endTime
              = fraction(nar.startOffset + SumOfBlockDurations(nar.blocks, Len(nar.blocks)), 1)

\* blocks of 10 and 8 seconds from offset 0: two entries of 5 seconds, one of 8,
\* the last ends at 18
C18_Witness ==
  /\ nar.pc = "done" /\ nar.startOffset = 0 /\ Len(nar.blocks) = 2
  /\ nar.blocks[1].durationSeconds = 10 /\ nar.blocks[2].durationSeconds = 8
  /\ Len(nar.entries) = 3
  /\ nar.entries[2].startTime = fraction(5, 1)
  /\ nar.entries[3].endTime = fraction(18, 1)

\* C19: every chunk returned by splitTextIntoChunks has at most
\* MAX_CHARS_PER_CHUNK characters (2000 for Azure, 4000 for OpenAI), also when
\* one sentence is longer than the ceiling and has no comma.
C19_ChunksWithinCeiling ==
  (tts.pc = "chunked") =>
    \A k \in 1..Len(tts.chunks) : Len(tts.chunks[k]) <= MAX_CHARS_PER_CHUNK[tts.provider]

\* the calls of synthesizeChunkToFile so far are allowed to be in progress
Synthesizing == tts.pc \in {"single", "loop", "synthesizing", "ffmpeg", "finally", "done"}

\* C20: when synthesizeToFile has returned or thrown, no chunk file and no
\* concat list file of the call exists, wherever the failure was; the chunks
\* are synthesized one at a time in text order, and the concat list names
\* their files in that order.
C20_TemporaryFilesRemoved ==
  Synthesizing =>
    /\ tts.pc = "done" => tts.files \subseteq {outputPath}
    /\ tts.inFlight <= 1
    /\ Len(tts.synthesized) <= Len(tts.chunks)
    /\ \A k \in 1..Len(tts.synthesized) : tts.synthesized[k].text = tts.chunks[k]
    /\ Len(tts.chunks) # 1 =>
         \A k \in 1..Len(tts.synthesized) :
           tts.synthesized[k].path = chunkPathOf(tts.provider, k - 1)
    /\ tts.pc = "ffmpeg" =>
         /\ tts.inFlight = 0
         /\ tts.concatContent
              = [k \in 1..Len(tts.chunks) |-> chunkPathOf(tts.provider, k - 1)]
         /\ \A k \in 1..Len(tts.chunks) : tts.concatContent[k] \in tts.files

\* a later chunk failed after its file was created: two chunk files removed
C20_Witness ==
  /\ Synthesizing /\ tts.pc = "done" /\ tts.outcome = "threw"
  /\ tts.failedIn = "chunk" /\ Len(tts.chunkPaths) = 2
  /\ tts.unlinked = {chunkPathOf(tts.provider, 0), chunkPathOf(tts.provider, 1)}
  /\ tts.files = {}

\* the ffmpeg calls of processClipsToVideo so far, by operation
CallsOf(op) == SelectSeq(pv.calls, LAMBDA c : c.op = op)

\* C21: processClipsToVideo extracts every clip once in list order, then tries
\* the lossless concatenation once; the re-encode is tried if and only if the
\* lossless one failed, at most once; a failed extraction or a failed re-encode
\* propagates with no further call.
C21_ConcatenationFallback ==
  (pv.pc # "idle") =>
    LET n == Len(pv.clips)
        k == Len(CallsOf("extract"))
    IN /\ k <= n
       /\ \A j \in 1..k :
            /\ pv.calls[j].op = "extract"
            /\ pv.calls[j].args = extractClip(pv.clips[j])
            /\ pv.calls[j].out = <<clipPathOf(j - 1)>>
            /\ j < k => pv.calls[j].ok = "ok"
       /\ Len(CallsOf("concat")) <= 1 /\ Len(CallsOf("reencode")) <= 1
       /\ \A c \in 1..Len(pv.calls) :
            pv.calls[c].op \in {"concat", "reencode"} =>
              /\ k = n /\ \A j \in 1..n : pv.calls[j].ok = "ok"
              /\ pv.calls[c].out = [j \in 1..n |-> clipPathOf(j - 1)]
              /\ c = IF pv.calls[c].op = "concat" THEN n + 1 ELSE n + 2
       /\ CallsOf("reencode") # <<>> <=>
            (CallsOf("concat") # <<>> /\ CallsOf("concat")[1].ok = "failed")
       /\ pv.pc = "done" =>
            /\ \A c \in 1..Len(pv.calls) : pv.calls[c].ok # "pending"
            /\ pv.outcome = "threw" <=> pv.calls[Len(pv.calls)].ok = "failed"
            /\ pv.outcome = "returned" =>
                 /\ CallsOf("concat") # <<>>
                 /\ pv.calls[Len(pv.calls)].ok = "ok"
            /\ \A c \in 1..(Len(pv.calls) - 1) :
                 pv.calls[c].ok = "failed" => pv.calls[c].op = "concat"

\* the lossless concatenation of two clips failed and the re-encode succeeded
C21_Witness ==
  /\ pv.pc = "done" /\ pv.outcome = "returned" /\ Len(pv.clips) = 2
  /\ Len(pv.calls) = 4
  /\ pv.calls[3].op = "concat" /\ pv.calls[3].ok = "failed"
  /\ pv.calls[4].op = "reencode" /\ pv.calls[4].ok = "ok"

\* C23: when the video-processing stage ends, by return or by a failed
\* extraction or concatenation, the temp directory and the extracted clip
\* files no longer exist.
C23_TempDirectoryRemoved ==
  (pv.pc = "done") => (~pv.workDir /\ pv.files = {})

\* the provider calls of callWithRetry that failed
FailedCalls == SelectSeq(llm.calls, LAMBDA c : c \in {"empty", "error"})

\* C22: callWithRetry makes at most maxRetries provider calls, stops at the first
\* response with content, waits 2^attempt seconds after a failed attempt that is
\* not the last, and after maxRetries failed attempts throws the error of the
\* last one; a response that does not parse throws without another call.
C22_LlmRetry ==
  (llm.pc # "idle") =>
    /\ Len(llm.calls) <= llm.maxRetries
    /\ \A c \in 1..(Len(llm.calls) - 1) : llm.calls[c] \in {"empty", "error"}
    /\ Len(llm.waits) <= Len(FailedCalls)
    /\ \A w \in 1..Len(llm.waits) : w < llm.maxRetries /\ llm.waits[w] = pow2(w) * 1000
    /\ llm.pc = "calling" => Len(llm.waits) = Len(llm.calls) - 1
    /\ llm.pc = "done" =>
         LET last == llm.calls[Len(llm.calls)] IN
         /\ llm.outcome = "returned" <=> (llm.calls # <<>> /\ last = "json")
         /\ (llm.calls # <<>> /\ last = "text") => llm.error = "Failed to parse"
         /\ (llm.calls # <<>> /\ last \in {"empty", "error"}) =>
              /\ Len(llm.calls) = llm.maxRetries
              /\ Len(llm.waits) = llm.maxRetries - 1
              /\ llm.error = <<llm.maxRetries, last>>

\* three attempts failed, with waits of 2 and 4 seconds, and the third error
\* is thrown
C22_Witness ==
  /\ llm.pc = "done" /\ llm.maxRetries = 3 /\ llm.outcome = "threw"
  /\ llm.calls = <<"error", "empty", "error">>
  /\ llm.waits = <<2000, 4000>>
  /\ llm.error = <<3, "error">>

\* C24: the clip list of the clip-generation stage has contiguous order values
\* starting at 1: its k-th clip has order k, also when the episode of some
\* moment has no matching video file.
C24_ClipOrderContiguous ==
  \A r \in Runs : \A k \in 1..Len(run[r].clips) : run[r].clips[k].order = k

\* the clips sorted by ascending `order` (the orders are distinct)
SortedByOrder(clips) ==
  [k \in 1..Len(clips) |->
     clips[CHOOSE i \in 1..Len(clips) :
             Cardinality({j \in 1..Len(clips) : clips[j].order < clips[i].order}) = k - 1]]

RECURSIVE RemappedFrom(_, _, _, _, _)
\* what the remapper returns for the clips from position pos on, taken in array
\* order, when the earlier clips last `offset` and gave index - 1 entries
RemappedFrom(clips, subs, pos, offset, index) ==
  IF pos > Len(clips) THEN <<>>
  ELSE LET clip == clips[pos]
           inside == SelectSeq(subs[clip.episodeId],
                               LAMBDA e : e.startTime >= clip.startTime
                                            /\ e.endTime <= clip.endTime)
       IN [k \in 1..Len(inside) |->
             [index |-> index + k - 1,
              startTime |-> offset + (inside[k].startTime - clip.startTime),
              endTime |-> offset + (inside[k].endTime - clip.startTime),
              text |-> inside[k].text,
              originalEpisodeId |-> clip.episodeId,
              originalStartTime |-> inside[k].startTime]]
          \o RemappedFrom(clips, subs, pos + 1,
                          offset + (clip.endTime - clip.startTime), index + Len(inside))

\* C25: remapSubtitlesToClips processes the clips in the sequence of their
\* `order` field: whatever their positions in the array, it returns what it
\* returns for the same clips sorted by ascending order.
C25_RemapFollowsOrderField ==
  (RemapDone /\ \A i \in 1..Len(rm.clips) : "order" \in DOMAIN rm.clips[i]) =>
    rm.remapped = RemappedFrom(SortedByOrder(rm.clips), rm.subs, 1, 0, 1)

\* C26: every entry created by parsing has startTime <= endTime, also for a
\* block whose time line gives an end earlier than its start.
C26_ParsedEntriesStartBeforeEnd ==
  \A k \in 1..Len(srt.parsed.entries) :
    srt.parsed.entries[k].startTime <= srt.parsed.entries[k].endTime

\* old is kept by new: new starts with old, or with the part of old that the cap
\* on the stored log has not displaced
KeptUnderCap(old, new) ==
  \E k \in 0..Len(old) :
    /\ Len(new) >= Len(old) - k
    /\ SubSeq(new, 1, Len(old) - k) = SubSeq(old, k + 1, Len(old))
    /\ k > 0 => Len(new) = LogCap

\* C27: the job log is append-only during a run: a stored entry stays, in the
\* same relative order, in every later stored version of the job until the cap
\* of 100 displaces it; and when setFailed has returned the stored record has
\* status failed, the error and the 'Pipeline failed' entry.
C27_LogAppendOnly ==
  [][/\ (disk.exists /\ disk'.exists) => KeptUnderCap(disk.logs, disk'.logs)
     /\ \A r \in Runs :
          (run[r].pc = "catch" /\ run'[r].pc = "rejected" /\ disk.exists) =>
            /\ disk'.status = "failed"
            /\ disk'.error = run[r].err
            /\ \E k \in 1..Len(disk'.logs) : disk'.logs[k] = "Pipeline failed"]_vars

\* C28: a deleted job never reappears: once delete has removed the record, no
\* later step of a run in flight recreates it, and that run does not resolve.
C28_DeletedJobStaysDeleted ==
  [][/\ ~disk.exists => ~disk'.exists
     /\ \A r \in Runs :
          (~disk.exists /\ run[r].pc # "done") => run'[r].pc # "done"]_vars

\* the job was deleted while a run was waiting for ffmpeg; the run then failed
\* on its next store call and could not record the failure
C28_Witness ==
  /\ ~disk.exists /\ lastResp = "Job deleted"
  /\ \E r \in Runs :
       /\ run[r].pc = "rejected" /\ run[r].result = NotFound
       /\ run[r].trace # <<>> /\ run[r].trace[Len(run[r].trace)] = "processClipsToVideo"

\* C29: in every stored state whose status is completed the outputs contain
\* videoPath and srtPath, and when the run that completed produced narration,
\* audioPath, narrativeSrtPath and the narrated video as videoPath.
C29_CompletedHasOutputs ==
  [][(disk'.exists /\ disk'.status = "completed") =>
       /\ disk'.outputs.videoPath # "none"
       /\ disk'.outputs.srtPath
       /\ \A r \in Runs :
            (run[r].pc # "done" /\ run'[r].pc = "done"
               /\ wantsNarration(cfg.mode, run[r].narrative)) =>
              /\ disk'.outputs.audioPath
              /\ disk'.outputs.narrativeSrtPath
              /\ disk'.outputs.videoPath = "narrated"]_vars

\* the characters of a string that are not white space
Inked(s) == SelectSeq(s, LAMBDA c : c \notin Whitespace)

\* C30: splitTextIntoChunks never returns an empty chunk and loses no text: for
\* a non-empty input every chunk is non-empty, and the chunks in order hold the
\* text of the input once and in the original order (up to the white space at
\* which they were cut), also when the first sentence of a text longer than
\* the ceiling is exactly as long as the ceiling.
C30_NoEmptyChunkNoTextLost ==
  (tts.pc = "chunked" /\ tts.text # <<>>) =>
    /\ \A k \in 1..Len(tts.chunks) : tts.chunks[k] # <<>>
    /\ Inked(flatten(tts.chunks)) = Inked(tts.text)

====
